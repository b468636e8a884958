\* Two tickets; two threads would do for polls to overlap.
SPECIFICATION FairSpec
CONSTANTS
  Ticket = {t1, t2}
  NoTicket = NoTicket
  Mine = t1
  Value = {1, 2}
  MaxMessages = 1
  Thread = {k1, k2}
  Sender = {s1}
INVARIANTS TypeOK RevertNeedsOldList
PROPERTIES NothingDisappears FeedCatchesUp
