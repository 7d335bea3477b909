----------------------- MODULE MCInstallTransaction -----------------------
EXTENDS InstallTransaction

\* A clean host, one with a directory from before, one with a foreign account.
MCForeign == {{}, {"directory"}, {"group"}}
=============================================================================
