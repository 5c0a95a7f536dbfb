\* Two copies and a restore in flight while two seats and the manager come and
\* go: the held seat returns, is replaced, or goes while another is there.
CONSTANTS
    Copies = {u1, u2}
    Restores = {r1, r2}
    Seats = {seat1, seat2}
    FirstSeat = seat1
    MaxChanges = 3
    MaxWire = 3
    None = None
SPECIFICATION FairSpec
INVARIANTS TypeOK LocksAccounted
PROPERTY DeviceRebinds
