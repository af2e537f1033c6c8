SPECIFICATION MSpec
CONSTANTS
  User = {u1, u2}
  Invitee = {u2}
  Org = {o1}
  Slot = {s1, s2}
  MaxUses = 1
  NoOrg = NoOrg
SYMMETRY Symmetry
INVARIANTS HomeIsMember InvitedOnce
