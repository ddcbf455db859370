---------------------------- MODULE MCSelfTests ----------------------------
EXTENDS SelfTests
=============================================================================
