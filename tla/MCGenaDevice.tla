---------------------------- MODULE MCGenaDevice ----------------------------
(* Instances of GenaDevice for TLC. *)
EXTENDS GenaDevice, TLC

NoLimit == {DLNA_INFINITE}
OneOrNoLimit == {1, DLNA_INFINITE}

Interchangeable == Permutations(Sids) \cup Permutations(Workers) \cup Permutations(Receivers)
=============================================================================
