------------------------------ MODULE MCKiosk -------------------------------
EXTENDS Kiosk
=============================================================================
