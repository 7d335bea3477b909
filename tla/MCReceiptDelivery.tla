--------------------------- MODULE MCReceiptDelivery ---------------------------
EXTENDS ReceiptDelivery, TLC

CONSTANTS c1, c2, n1, n2, q1
===============================================================================
