---------------------------- MODULE MCFunctions ----------------------------
(* TLC instances that share nothing, gathered in one: frames and numbers    *)
(* (MCWire), orders against both books (MCPricing), the resilience measure  *)
(* (MCResilience), the latency harness (MCLatency) and a tape replayed at   *)
(* another depth (MCReplay).  In a behaviour one of them moves and the      *)
(* others stay at their start, so that each is explored as by itself.       *)
EXTENDS MCWire, MCPricing, MCResilience, MCLatency, MCReplay

VARIABLE subject    \* the instance that moves

pricingVars == <<per, order>>
replayVars == <<live, deep>>

NoOrder == [side |-> "ask", size |-> 0]

FunctionsInit ==
    /\ subject \in {"wire", "pricing", "resilience", "latency", "replay"}
    /\ WireInit /\ (subject # "wire" => kind = "number")
    /\ PricingInit /\ (subject # "pricing" => order = NoOrder)
    /\ ResilienceInit /\ LatencyInit /\ ReplayInit

FunctionsNext ==
    /\ UNCHANGED subject
    /\ \/ /\ subject = "wire" /\ WireNext
          /\ UNCHANGED <<pricingVars, watched, feed, replayVars>>
       \/ /\ subject = "pricing" /\ PricingNext
          /\ UNCHANGED <<wireVars, watched, feed, replayVars>>
       \/ /\ subject = "resilience" /\ ResilienceNext
          /\ UNCHANGED <<wireVars, pricingVars, feed, replayVars>>
       \/ /\ subject = "latency" /\ LatencyNext
          /\ UNCHANGED <<wireVars, pricingVars, watched, replayVars>>
       \/ /\ subject = "replay" /\ ReplayNext
          /\ UNCHANGED <<wireVars, pricingVars, watched, feed>>

FunctionsSpec ==
    FunctionsInit /\ [][FunctionsNext]_<<subject, wireVars, pricingVars, watched, feed, replayVars>>
=============================================================================
