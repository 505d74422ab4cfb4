\* Three getters and two status checks, in any order.
SPECIFICATION Spec
CONSTANTS
    resolver = resolver  genesis = genesis  processes = processes
    e1 = e1  e2 = e2  e3 = e3  s1 = s1  s2 = s2
    Contracts = {resolver, genesis, processes}
    Resolver = resolver
    Getters = {e1, e2, e3}
    Wants <- MCWants
    Checks = {s1, s2}
INVARIANTS
    NeverAttachesToNull
    AllOrNothing
    NoneJoinsEndedResolution
