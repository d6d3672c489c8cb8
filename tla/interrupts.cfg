CONSTANTS
 d1 = d1
 d2 = d2
 Drivers = {d1,d2}
 NoDriver = NoDriver
 Uses <- MCUses
 Irqs = {9,23,32,33,48,49}
 MaxRaise = 2
 MaxCalls <- MCCalls
SPECIFICATION Spec
INVARIANTS TypeOK GroupsMatch HolderOwnsEntry HandlerHasArg NoEventLost
PROPERTY Served
CHECK_DEADLOCK FALSE
