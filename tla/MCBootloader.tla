---------------------------- MODULE MCBootloader ----------------------------
EXTENDS Bootloader
=============================================================================
