----------------------------- MODULE MCPetriVm -----------------------------
EXTENDS PetriVm

=============================================================================
