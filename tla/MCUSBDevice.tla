---------------------------- MODULE MCUSBDevice ----------------------------
EXTENDS USBDevice
=============================================================================
