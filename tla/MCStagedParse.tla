--------------------------- MODULE MCStagedParse ---------------------------
\* Values for the configuration of StagedParse: a request for the whole parse, and one for a
\* parse that stops after the sheet.
EXTENDS StagedParse
CONSTANTS p1, p2
=============================================================================
