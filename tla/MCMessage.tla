------------------------------ MODULE MCMessage ------------------------------
(* MessageDispatch with a writer and a reader that pick their properties from
   a small menu: the same number under two names and with two widths, an
   invalid number, a set where the other side has a sequence. *)
EXTENDS MessageDispatch

MCSides == {"writer", "reader"}

Prop(name, number, type) == [name |-> name, number |-> number, type |-> type]

MCMenu == {Prop("a", 1, "int8_t"), Prop("b", 1, "int16_t"), Prop("b", 2, "seq"),
           Prop("c", 2, "set"), Prop("c", 1, "string"),
           Prop("d", 3, "map"), Prop("c", 3, "dummy"),
           Prop("d", 0, "int8_t")}

MCValues == [t \in Types |->
    CASE t = "int8_t" -> <<-1, 1>> [] t = "int16_t" -> <<-4, 3>>
      [] t = "string" -> <<1, 2>> [] t = "seq" -> << <<2, 1>>, <<>> >>
      [] t = "set" -> <<{1, 2}, {}>> [] t = "map" -> << <<2, 1>>, <<>> >>
      [] t = "dummy" -> <<1, 2>>]

MCKeys == {"k"}
MCBodySizes == {1, 4}
==============================================================================
