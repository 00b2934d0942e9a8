SPECIFICATION JourneySpec
CONSTANTS
  None = None
  p1 = p1
  p2 = p2
  Portals = {p1, p2}
  ActorOf <- OwnActor
  MaxOperations = 2
  MaxSignIns = 1
INVARIANTS ToldIsTrue OneChangeAtATime NoLostUpdate
PROPERTIES PortalAnswers
CHECK_DEADLOCK FALSE
