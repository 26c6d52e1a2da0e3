------------------------------ MODULE Sidecar ------------------------------
(***************************************************************************)
(* The sidecar (dpumesh/dpu_daemon.py): the routing thread, which sends    *)
(* every descriptor that leaves a worker on to another worker or back to   *)
(* the bridge, and one bridge thread for each client that connects.        *)
(***************************************************************************)
EXTENDS Shm

CONSTANTS
  PodId,            (* the pod ids, in the order of registration         *)
  Asks,             (* what each client asks                             *)
  TimeoutMayFire    (* whether 30 seconds may pass without a response    *)

ASSUME SidecarAssumption ==
  /\ PodId \in [Worker -> Nat]
  /\ \A v, w \in Worker : PodId[v] = PodId[w] => v = w
  /\ Asks \in [Client -> {"lookup", "noname", "badpath", "nosvc", "big"}]
  /\ TimeoutMayFire \in BOOLEAN

VARIABLES
  arm,               (* locals of the routing thread                     *)
  rr_idx,            (* WorkerSelector._rr_idx                           *)
  bridge,            (* locals of each client's bridge thread            *)
  bridge_events,     (* _bridge_events: absent, waited for or set        *)
  bridge_responses   (* _bridge_responses; Nil when the key is absent    *)

sidecarVars == <<arm, rr_idx, bridge, bridge_events, bridge_responses>>
tables == <<bridge_events, bridge_responses>>

(* Python's None under a key that is there.                                *)
None == [status |-> 0, body |-> Nil]

IdleArm == [pc |-> "poll", desc |-> Nil, resp |-> Nil]

SidecarInit ==
  /\ arm = IdleArm
  /\ rr_idx = [s \in Service |-> 0]
  /\ bridge = [c \in Client |-> [pc |-> "new", dst |-> Nil, body |-> Nil, answer |-> Nil]]
  /\ bridge_events = [c \in Client |-> "absent"]
  /\ bridge_responses = [c \in Client |-> Nil]

(* WorkerSelector.select: the workers of a service in the order of their   *)
(* pod ids, one after the other.                                           *)
WorkersOf(s) == {w \in Worker : ServiceOf[w] = s}
Selected(s) ==
  CHOOSE w \in WorkersOf(s) :
    Cardinality({v \in WorkersOf(s) : PodId[v] < PodId[w]})
      = rr_idx[s] % Cardinality(WorkersOf(s))
Advance(s) ==
  rr_idx' = [rr_idx EXCEPT ![s] = (@ % Cardinality(WorkersOf(s))) + 1]
-----------------------------------------------------------------------------
(* _poll_sidecar_tx_sq, _route_descriptor                                  *)

ArmGet ==
  /\ arm.pc = "poll"
  /\ sidecar_tx_sq # << >>
  /\ sidecar_tx_sq' = Tail(sidecar_tx_sq)
  /\ arm' = [arm EXCEPT !.pc = "route", !.desc = Head(sidecar_tx_sq)]
  /\ UNCHANGED <<rr_idx, bridge, tables, mem, tx_sq, rx_sq, sidecar_rx_sq>>

RouteRequest ==
  LET svc == ReadSlot(arm.desc.header).svc
  IN /\ arm.pc = "route"
     /\ arm.desc.op = "req"
     /\ \/ /\ WorkersOf(svc) = {}
           /\ arm' = [arm EXCEPT !.pc = "cleanup"]
           /\ UNCHANGED rr_idx
        \/ /\ WorkersOf(svc) # {}
           /\ Advance(svc)
           /\ arm' = [arm EXCEPT !.pc = "put", !.desc.dst = Selected(svc),
                                 !.desc.case = "local"]
     /\ UNCHANGED <<bridge, tables, shmVars>>

RouteResponse ==
  LET dst == ReadSlot(arm.desc.header).dst
  IN /\ arm.pc = "route"
     /\ arm.desc.op = "resp"
     /\ dst # Nil
     /\ arm' = [arm EXCEPT !.pc = "put", !.desc.dst = dst, !.desc.case = "local"]
     /\ UNCHANGED <<rr_idx, bridge, tables, shmVars>>

ArmPut ==
  /\ arm.pc = "put"
  /\ \/ /\ Room(sidecar_rx_sq)
        /\ sidecar_rx_sq' = Append(sidecar_rx_sq, arm.desc)
        /\ arm' = IdleArm
     \/ /\ ~Room(sidecar_rx_sq)
        /\ arm' = [arm EXCEPT !.pc = "cleanup"]
        /\ UNCHANGED sidecar_rx_sq
  /\ UNCHANGED <<rr_idx, bridge, tables, mem, tx_sq, rx_sq, sidecar_tx_sq>>

(* _cleanup_descriptor_buffers: the body, then the header.                 *)
Cleanup ==
  /\ arm.pc = "cleanup"
  /\ \/ /\ arm.desc.body # Nil
        /\ FreeSlot(arm.desc.body)
        /\ arm' = [arm EXCEPT !.desc.body = Nil]
     \/ /\ arm.desc.body = Nil
        /\ FreeSlot(arm.desc.header)
        /\ arm' = IdleArm
  /\ UNCHANGED <<rr_idx, bridge, tables, sqs>>

(* _deliver_bridge_response: read and free the body, free the header, then *)
(* wake the client's thread, if it still waits.                            *)
DeliverBody ==
  LET h == ReadSlot(arm.desc.header)
  IN /\ arm.pc = "route"
     /\ arm.desc.op = "resp"
     /\ h.dst = Nil
     /\ FreeSlot(arm.desc.body)
     /\ arm' = [arm EXCEPT !.pc = "free_header", !.desc.body = Nil,
                           !.resp = [rid |-> h.rid, status |-> h.status,
                                     body |-> ReadSlot(arm.desc.body)]]
     /\ UNCHANGED <<rr_idx, bridge, tables, sqs>>

DeliverHeader ==
  /\ arm.pc = "free_header"
  /\ FreeSlot(arm.desc.header)
  /\ arm' = [arm EXCEPT !.pc = "wake", !.desc = Nil]
  /\ UNCHANGED <<rr_idx, bridge, tables, sqs>>

(* Mutant: the first client that waits.                                    *)
AddresseeFirst(resp) ==
  LET open == {c \in Client : bridge_events[c] = "waiting"}
  IN IF open = {} THEN resp.rid ELSE CHOOSE c \in open : TRUE

(* The key into _bridge_events and _bridge_responses: req_id_str.          *)
Addressee(resp) == resp.rid

DeliverEvent ==
  LET c == Addressee(arm.resp)
  IN /\ arm.pc = "wake"
     /\ \/ /\ bridge_events[c] # "absent"
           /\ bridge_events' = [bridge_events EXCEPT ![c] = "set"]
           /\ bridge_responses' = [bridge_responses EXCEPT ![c] =
                [status |-> arm.resp.status, body |-> arm.resp.body]]
        \/ /\ bridge_events[c] = "absent"
           /\ UNCHANGED tables
     /\ arm' = IdleArm
     /\ UNCHANGED <<rr_idx, bridge, shmVars>>

Arm == \/ ArmGet \/ RouteRequest \/ RouteResponse \/ ArmPut \/ Cleanup
       \/ DeliverBody \/ DeliverHeader \/ DeliverEvent
-----------------------------------------------------------------------------
(* _handle_bridge_client                                                   *)

Answer(c, status, body) ==
  bridge' = [bridge EXCEPT ![c].pc = "done", ![c].body = Nil,
                           ![c].answer = [status |-> status, body |-> body]]

Target(c) == IF Asks[c] = "nosvc" THEN Nil ELSE "frontend"

(* The request is in: both tables get an entry and a worker is selected.   *)
BridgeRegister(c) ==
  /\ bridge[c].pc = "new"
  /\ bridge_events' = [bridge_events EXCEPT ![c] = "waiting"]
  /\ bridge_responses' = [bridge_responses EXCEPT ![c] = None]
  /\ \/ /\ WorkersOf(Target(c)) = {}
        /\ Answer(c, 503, NoBody)
        /\ UNCHANGED rr_idx
     \/ /\ WorkersOf(Target(c)) # {}
        /\ Advance(Target(c))
        /\ bridge' = [bridge EXCEPT ![c].pc = "alloc", ![c].dst = Selected(Target(c))]
  /\ UNCHANGED <<arm, shmVars>>

(* Header and body go into one slot; a message that is too long for it     *)
(* raises OverflowError and leaves the slot as it was.                     *)
BridgeAlloc(c) ==
  LET message == [ask |-> Asks[c], svc |-> "frontend", name |-> c, status |-> 0,
                  rid |-> c, src |-> Nil, dst |-> bridge[c].dst]
  IN /\ bridge[c].pc = "alloc"
     /\ \/ /\ Full(DpuRxBody)
           /\ Answer(c, 503, NoBody)
           /\ UNCHANGED mem
        \/ /\ ~Full(DpuRxBody)
           /\ Asks[c] # "big"
           /\ AllocWrite(DpuRxBody, message)
           /\ bridge' = [bridge EXCEPT ![c].pc = "put", ![c].body = NewRef(DpuRxBody)]
        \/ /\ ~Full(DpuRxBody)
           /\ Asks[c] = "big"
           /\ AllocWrite(DpuRxBody, NoBody)
           /\ bridge' = [bridge EXCEPT ![c].pc = "toobig", ![c].body = NewRef(DpuRxBody)]
     /\ UNCHANGED <<arm, rr_idx, tables, sqs>>

(* Every descriptor of the bridge has req_id 0.                            *)
BridgePut(c) ==
  LET d == [op |-> "req", case |-> "ingress", req_id |-> 0, dst |-> bridge[c].dst,
            header |-> Nil, body |-> bridge[c].body]
  IN /\ bridge[c].pc = "put"
     /\ \/ /\ Room(sidecar_rx_sq)
           /\ sidecar_rx_sq' = Append(sidecar_rx_sq, d)
           /\ bridge' = [bridge EXCEPT ![c].pc = "wait", ![c].body = Nil]
        \/ /\ ~Room(sidecar_rx_sq)
           /\ bridge' = [bridge EXCEPT ![c].pc = "full"]
           /\ UNCHANGED sidecar_rx_sq
     /\ UNCHANGED <<arm, rr_idx, tables, mem, tx_sq, rx_sq, sidecar_tx_sq>>

(* The error paths free the slot; both entries stay in the tables.         *)
BridgeUndo(c) ==
  /\ bridge[c].pc \in {"toobig", "full"}
  /\ FreeSlot(bridge[c].body)
  /\ Answer(c, IF bridge[c].pc = "toobig" THEN 413 ELSE 503, NoBody)
  /\ UNCHANGED <<arm, rr_idx, tables, sqs>>

(* Mutant: only the event is popped.                                       *)
ForgetEventOnly(c) ==
  bridge_events' = [bridge_events EXCEPT ![c] = "absent"] /\ UNCHANGED bridge_responses

(* The event is set within the 30 seconds of event.wait: the response is   *)
(* taken under the bridge lock and both entries go.                        *)
Forget(c) ==
  /\ bridge_events' = [bridge_events EXCEPT ![c] = "absent"]
  /\ bridge_responses' = [bridge_responses EXCEPT ![c] = Nil]

BridgeAnswer(c) ==
  /\ bridge[c].pc = "wait"
  /\ bridge_events[c] = "set"
  /\ Answer(c, bridge_responses[c].status, bridge_responses[c].body)
  /\ Forget(c)
  /\ UNCHANGED <<arm, rr_idx, shmVars>>

(* Mutant: event.wait() without the 30 seconds.                            *)
BridgeTimeoutNever(c) == FALSE /\ UNCHANGED <<sidecarVars, shmVars>>

(* The wait has ended without the event; a response that comes now, before *)
(* the entries are gone, is not looked at any more.                        *)
BridgeTimeout(c) ==
  /\ bridge[c].pc = "wait"
  /\ bridge_events[c] # "set"
  /\ TimeoutMayFire
  /\ bridge' = [bridge EXCEPT ![c].pc = "expired"]
  /\ UNCHANGED <<arm, rr_idx, tables, shmVars>>

BridgeExpire(c) ==
  /\ bridge[c].pc = "expired"
  /\ Answer(c, 504, NoBody)
  /\ Forget(c)
  /\ UNCHANGED <<arm, rr_idx, shmVars>>

BridgeStep(c) == \/ BridgeRegister(c) \/ BridgeAlloc(c) \/ BridgePut(c) \/ BridgeUndo(c)
                 \/ BridgeAnswer(c) \/ BridgeExpire(c)
=============================================================================
