------------------------- MODULE MCRentalBillingPush -------------------------
EXTENDS RentalBillingPush, TLC
=============================================================================
