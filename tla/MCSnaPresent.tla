---------------------------- MODULE MCSnaPresent ----------------------------
EXTENDS SnaPresent
=============================================================================
