---------------------------- MODULE MCAg7240Rx -----------------------------
EXTENDS Ag7240Rx
=============================================================================
