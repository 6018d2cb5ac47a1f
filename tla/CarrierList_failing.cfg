SPECIFICATION Spec
CONSTANTS
  Carriers = {lincoln, tarawa}
  Lookalikes = {ferry}
  MaxSpawns = 1
  MaxLosses = 0
INVARIANT RejectedWereDenied
