-------------------------------- MODULE MCUi --------------------------------
(***************************************************************************)
(* A panel with a button and a field in it.  The first patch only lights   *)
(* its node up, the second makes it wider.                                *)
(***************************************************************************)
EXTENDS Ui

Box(size) == [size |-> size, background |-> "plain"]
Lit == [size |-> 1, background |-> "lit"]
Wide == [size |-> 2, background |-> "lit"]

MCPool == << [style |-> Lit, touches_layout |-> FALSE],
             [style |-> Wide, touches_layout |-> TRUE] >>

MCTableOf ==
  [Plain |-> [bits \in Bits |-> NoPatch],
   Hot |-> [bits \in Bits |-> IF "pressed" \in bits THEN 2 ELSE IF "hover" \in bits THEN 1
                              ELSE NoPatch]]

MCDocument == << [parent |-> Nil, style |-> Box(AutoSize), table |-> "Plain"],
                 [parent |-> 0, style |-> Box(AutoSize), table |-> "Plain"],
                 [parent |-> 1, style |-> Box(1), table |-> "Hot"],
                 [parent |-> 1, style |-> Box(1), table |-> "Plain"] >>
MCFieldNodes == <<3>>
MCStyles == {Box(2)}
MCTables == {"Hot"}
MCPools == {MCPool}
MCPlans == { <<"remove", "insert", "insert", "remove">>, <<"remove", "insert", "style">>,
             <<"remove", "insert", "field">>, <<"style", "pool", "table">>,
             <<"table", "remove", "insert", "table">> }
=============================================================================
