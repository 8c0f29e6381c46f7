--------------------------- MODULE MCAnswerDelivery ---------------------------
EXTENDS AnswerDelivery

=============================================================================
