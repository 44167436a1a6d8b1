---------------------------- MODULE MCToolchain ----------------------------
(* Values for TLC. *)
EXTENDS Toolchain

Typed == {<<"CB", 1, <<>>>>, <<"Tap", 1, <<>>>>, <<"Long", 0, <<>>>>, <<"Nora", 0, <<>>>>,
          <<"Wide", 0, <<>>>>,
          <<"true", 0, <<>>>>}
=============================================================================
