---------------------------- MODULE MCPreparedSink ----------------------------
(* Four assets of two inputs: a division hierarchy, then points.             *)
EXTENDS PreparedSink

division(joined) == [direct |-> {}, table |-> "divisions", joined |-> joined]
street == [direct |-> {"records"}, table |-> "none", joined |-> {}]
rejected == [direct |-> {"rejections"}, table |-> "none", joined |-> {}]
address == [direct |-> {"records"}, table |-> "link_addresses", joined |-> {}]
business == [direct |-> {"records"}, table |-> "link_businesses",
             joined |-> {"relationships"}]

MCInputs == << <<"d">>, <<"a", "b", "c">> >>

MCContent ==
  [d |-> <<division({"records", "relationships"}), division({"rejections"}),
           division({"records"})>>,
   a |-> <<business, rejected>>,
   b |-> <<address, business>>,
   c |-> <<street>>]
===============================================================================
