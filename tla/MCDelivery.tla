----------------------------- MODULE MCDelivery -----------------------------
EXTENDS Delivery

\* What is said: the same thing again, or one of two things.
TwoTexts == {"hello", "again"}

=============================================================================
