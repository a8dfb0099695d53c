--------------------------- MODULE MCReplyDelivery ---------------------------
EXTENDS ReplyDelivery, TLC

CONSTANTS r1, r2, p1, p2
=============================================================================
