------------------------------ MODULE MCRecovery ----------------------------
(***************************************************************************)
(* Instances of Recovery: programs of up to three steps, listed in order   *)
(* or not, with gaps and repeated orders, on vehicles whose ECUs offer     *)
(* more or less.                                                           *)
(***************************************************************************)
EXTENDS Recovery

MCEcu(id, supported) ==
  [ecu_id |-> id, installed |-> "v1", target |-> "v2", supported |-> supported]

Vehicle(ecus) == [vehicle_id |-> "V", ecus |-> ecus]

\* A can be locked, can be locked for a service it does not offer, or cannot be
\* locked; the last vehicle lists A twice.
Specs ==
  {Vehicle(<<MCEcu("A", S), MCEcu("B", {"0x34", "0x10"})>>) :
     S \in {{"0x27", "0x34", "0x22"}, {"0x27", "0x10", "0x34"}, {"0x34"}}}
  \cup {Vehicle(<<MCEcu("A", {"0x27", "0x34"}), MCEcu("A", {"0x34"})>>)}

MCStep(kind, order, deps, description) ==
  [order |-> order, step_type |-> kind[1], ecu_id |-> kind[2], uds_service |-> kind[3],
   estimated_seconds |-> kind[4], depends_on |-> deps, description |-> description]

Unlock == <<"security_access", "A", "0x27", 40>>
Flash == <<"flash_software", "A", "0x34", 0>>
FlashB == <<"flash_software", "B", "0x34", 90>>
Kinds == {Unlock, Flash, FlashB, <<"validation", "Z", NoService, 5>>}

\* In turn, with a gap, against the list, repeated.
OrderLists == {<<1, 2>>, <<2, 5>>, <<5, 1>>, <<3, 3>>}

Programs2 ==
  {[i \in 1..2 |-> MCStep(k[i], o[i], IF i = 2 THEN d ELSE <<>>, 20)] :
     k \in Kinds \X Kinds, o \in OrderLists, d \in {<<>>, <<1>>}}

\* The unlock of A comes too late to help the flash of B or early enough.
Programs3 ==
  {[i \in 1..3 |-> MCStep(k[i], <<1, 3, 5>>[i], <<>>, 20)] :
     k \in {<<Unlock, Flash, FlashB>>, <<FlashB, Unlock, Flash>>}}

\* Descriptions that leave just enough room for the retry's, and too little.
LongPrograms == {<<MCStep(FlashB, 1, <<>>, d)>> : d \in {MaxDescription - 7, MaxDescription - 6}}

MCCalls ==
  [spec : Specs, steps : Programs2 \cup Programs3 \cup LongPrograms \cup {<<>>},
   failed_step_order : {1, 2, 3, 5}, reason : SUBSET Keywords, provider : {"mock", "openai"}]

\* Steps of an LLM: a retry with or without unlock, one that builds on the failed
\* step, on one that never came or on itself, orders that collide, none at all.
LlmSteps ==
  { <<>>,
    <<MCStep(Unlock, 6, <<>>, 20), MCStep(Flash, 7, <<6>>, 20)>>,
    <<MCStep(Flash, 6, <<1>>, 20)>>,
    <<MCStep(FlashB, 6, <<3, 2>>, 20)>>,
    <<MCStep(Flash, 1, <<5>>, 20), MCStep(FlashB, 1, <<1>>, 20)>>,
    <<MCStep(<<"validation", "B", "0x22", 5>>, 6, <<>>, 20)>> }

MCLlmAnswers == [steps : LlmSteps, notes : Notes]
=============================================================================
