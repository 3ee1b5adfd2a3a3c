----------------------------- MODULE GandivaBus -----------------------------
(***************************************************************************)
(* What the data-port bridge promises upstream: a memory that takes one    *)
(* request at a time, performs it in one step and answers it once.         *)
(***************************************************************************)
CONSTANTS Addr,    \* word addresses
          Lanes,   \* byte lanes of a word (0 .. 3)
          Byte

Data == [Lanes -> Byte]
Resps == {"OKAY", "SLVERR"}
Requests == [write : BOOLEAN, addr : Addr, wdata : Data, wstrb : SUBSET Lanes]

(* The byte strobes select the lanes a store changes.                      *)
Merge(old, wdata, wstrb) ==
    [k \in Lanes |-> IF k \in wstrb THEN wdata[k] ELSE old[k]]

VARIABLES bus_phase,   \* "idle", "accepted", "performed"
          bus_req,     \* the request being served
          bus_rdata,   \* what a load read
          bus_resp,    \* how the access ended
          bus_mem

vars == <<bus_phase, bus_req, bus_rdata, bus_resp, bus_mem>>

Init == /\ bus_phase = "idle"
        /\ bus_req \in Requests
        /\ bus_rdata \in Data
        /\ bus_resp \in Resps
        /\ bus_mem \in [Addr -> Data]

Accept == /\ bus_phase = "idle"
          /\ bus_phase' = "accepted"
          /\ bus_req' \in Requests
          /\ UNCHANGED <<bus_rdata, bus_resp, bus_mem>>

(* The access happens; a refused store leaves the memory as it was.        *)
Perform == /\ bus_phase = "accepted"
           /\ bus_phase' = "performed"
           /\ bus_resp' \in Resps
           /\ IF bus_req.write
              THEN /\ bus_mem' = IF bus_resp' = "OKAY"
                                 THEN [bus_mem EXCEPT ![bus_req.addr] =
                                         Merge(@, bus_req.wdata, bus_req.wstrb)]
                                 ELSE bus_mem
                   /\ UNCHANGED bus_rdata
              ELSE /\ bus_rdata' = bus_mem[bus_req.addr]
                   /\ UNCHANGED bus_mem
           /\ UNCHANGED bus_req

Complete == /\ bus_phase = "performed"
            /\ bus_phase' = "idle"
            /\ UNCHANGED <<bus_req, bus_rdata, bus_resp, bus_mem>>

Next == Accept \/ Perform \/ Complete

Spec == Init /\ [][Next]_vars
=============================================================================
