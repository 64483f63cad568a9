---------------------------- MODULE MCStaticAssets -----------------------------
(* StaticAssets with two apps, one of which is rolled out, and two         *)
(* stylesheets, which no definition tells apart.                           *)
EXTENDS StaticAssets, TLC

MCSymmetry == Permutations(Styles)
=============================================================================
