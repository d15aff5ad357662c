CONSTANTS
    Users = {"u", "v"}
    Names = {"acme"}
    CustomSlugs = {"clerk"}
    CustomGrants <- MCGrants
    ChosenSlugs = {"owner", "viewer", "clerk"}
    MaxOrgs = 2
    MaxInvitations = 2
    MaxRequests = 3
SPECIFICATION Spec
INVARIANTS OwnerKeepsControl StaleGrantsRefused RolesStayHome ReadersOnlyTend
CHECK_DEADLOCK FALSE
