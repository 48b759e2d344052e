-------------------------------- MODULE PadIds --------------------------------
\* The product ids of tools/identify.py that may be opened, are refused, and
\* are only identified.
PAD_PIDS == {"310a", "6012", "6013", "310b", "301b", "3105", "3019"}
REFUSE == {"3208", "5750", "301c", "3107"}
IDENTIFY_ONLY_PIDS == {"310a", "3019"}
=============================================================================
