SPECIFICATION Spec
CONSTANTS
    group = group fresh = fresh dm = dm
    a1 = a1 a2 = a2 a3 = a3
    owner = owner stranger = stranger
    hi = hi plain = plain call = call own = own again = again
    Channels = {group, fresh, dm}
    Agents = {a1, a2, a3}
    Users = {owner, stranger}
    Msgs = {hi, plain, call, own, again}
    Chan <- MCChan
    From <- MCFrom
    Mentions <- MCMentions
    Owner = owner
    OwnerDm = dm
    Threaded = {group, fresh}
    Policy <- MCPolicy
    Setup <- MCSetup
    Rank <- MCRank
    Groups0 = {a1, a2}
    Members0 <- MCMembers
    MaxFaults = 1
    None = None
INVARIANTS WokenIsAllowed OneLiveCard SenderRowHasCard 
PROPERTIES DeniedStaysQuiet
CHECK_DEADLOCK FALSE
