\* Three cells, and enough events to go round twice and to overflow.
CONSTANTS
  N = 3
  MaxEvents = 8
SPECIFICATION FairSpec
INVARIANTS NeverTorn EventsAccounted
PROPERTIES LogSpec AllDelivered
