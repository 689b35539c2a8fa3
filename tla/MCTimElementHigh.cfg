SPECIFICATION Spec
CONSTANTS
    Aids = {0, 1, 2, 7, 8, 9, 15, 16}
    Ssid <- MCSsid
    Rates <- MCRates
    Ds <- MCDs
    Rest <- MCRest
    Stale = {5}
INVARIANT BitsAreAids
