-------------------------- MODULE MCFieldDispatch --------------------------
(***************************************************************************)
(* FieldDispatch with every two fields of the catalogue in either order,   *)
(* and with the fields of the M-Bus on every order of the four channels.   *)
(***************************************************************************)
EXTENDS FieldDispatch

Default == [gas |-> 1, water |-> 2, thermal |-> 3, sub |-> 4]
MCChannels == {c \in [{"gas", "water", "thermal", "sub"} -> 1..4] :
                 \A i, j \in DOMAIN c : i # j => c[i] # c[j]}

MCArguments(c) ==
  IF c = Default THEN {<<f, g>> \in DataFields(c) \X DataFields(c) : f # g}
  ELSE {<<f, g>> \in MBusFields(c) \X MBusFields(c) : f # g}
=============================================================================
