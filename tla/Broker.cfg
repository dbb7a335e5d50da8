\* Four messages through a buffer of two: the buffer overflows, and two
\* messages can be on the wire with others behind them.
CONSTANTS
  BufSize = 2
  MaxMsgs = 4
SPECIFICATION FairSpec
PROPERTIES FifoSpec LossIsBounded StableLinkDelivers
CHECK_DEADLOCK FALSE
