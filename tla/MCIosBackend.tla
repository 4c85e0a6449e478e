---------------------------- MODULE MCIosBackend -----------------------------
EXTENDS IosBackend

=============================================================================
