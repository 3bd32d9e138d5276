SPECIFICATION Spec
CONSTANTS
    Bodies <- MCBodies
    RoleSets <- MCRoleSets
INVARIANTS
    SpansDisjoint
    RolesChoose
    ReadersAgree
    EmptyingUncoversNested
    TurnsAlternate
CHECK_DEADLOCK FALSE
