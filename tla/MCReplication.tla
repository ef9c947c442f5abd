---------------------------- MODULE MCReplication ----------------------------
EXTENDS Replication
MCPlaceholder == <<"placeholder">>
MCPaths == {MCPlaceholder}
=============================================================================
