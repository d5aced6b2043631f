SPECIFICATION Spec
CONSTANTS
    CONFIG_DNS_CACHE_ENTRIES = 2
    ShortNames = {"a", "b"}
    LongNames = {"longer1", "longer2"}
    Cut = "longer"
    MaxAge = 2
    MaxTime = 4
INVARIANT
    NameAsked
