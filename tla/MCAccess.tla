------------------------------ MODULE MCAccess -----------------------------
EXTENDS Access

MCGrants == {{<<"member", "*">>, <<"role", "*">>}, {<<"member", "read">>}}
=============================================================================
