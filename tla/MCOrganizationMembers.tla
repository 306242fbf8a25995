------------------------ MODULE MCOrganizationMembers ------------------------
EXTENDS OrganizationMembers, TLC

Symmetry == Permutations(Row) \cup Permutations(Request) \cup Permutations(User \ {Creator})
=============================================================================
