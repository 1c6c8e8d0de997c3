SPECIFICATION Spec
CONSTANTS
    Recipes <- MCRecipes
    Paths = {"yaml", "bare"}
    Tenants <- MCTenants
INVARIANT PortsExist
INVARIANT NoPortIsTakenTwice
INVARIANT HostsSpareTheUplinks
INVARIANT UplinksAreReserved
INVARIANT AddressesAreDistinct
INVARIANT TierComesWithItsPods
INVARIANT RobotExpectsBothEnds
INVARIANT NetcfgNamesAreDistinct
\* The generator ends when it has saved its topology or failed to.
CHECK_DEADLOCK FALSE
