------------------------- MODULE MCPluginLifecycle -------------------------
(***************************************************************************)
(* PluginLifecycle on two snapshots of each filter.models class, one of    *)
(* each pair without rules.                                                *)
(***************************************************************************)
EXTENDS PluginLifecycle

CONSTANTS free, freeEmpty, models, modelsEmpty, nil, rejected, c1, c2, r1, r2

MCSnapshots == {free, freeEmpty, models, modelsEmpty}
MCModelBearing == {models, modelsEmpty}
MCRuleFree == {freeEmpty, modelsEmpty}
=============================================================================
