----------------------------- MODULE DpaDaemon -----------------------------
(***************************************************************************)
(* The DMA manager (dpumesh/dpa_daemon.py): one thread moves descriptors   *)
(* from the workers' transmit queues to the sidecar, copying headers to    *)
(* the DPU; the other moves them from the sidecar to the workers' receive  *)
(* queues, copying bodies and headers to the pools of the receiver.        *)
(***************************************************************************)
EXTENDS Shm

VARIABLES
  dpaTx,    (* locals of _poll_host_tx_sqs and _handle_host_tx           *)
  dpaRx     (* locals of _poll_sidecar_rx_sq and _handle_sidecar_rx      *)

dpaVars == <<dpaTx, dpaRx>>

IdleTx == [pc |-> "poll", src |-> Nil, desc |-> Nil, header |-> Nil]
IdleRx == [pc |-> "poll", desc |-> Nil, body |-> Nil, header |-> Nil]

DpaInit == dpaTx = IdleTx /\ dpaRx = IdleRx
-----------------------------------------------------------------------------
(* _handle_host_tx                                                         *)

TxGet(w) ==
  /\ dpaTx.pc = "poll"
  /\ tx_sq[w] # << >>
  /\ tx_sq' = [tx_sq EXCEPT ![w] = Tail(@)]
  /\ dpaTx' = [IdleTx EXCEPT !.pc = "copy", !.src = w, !.desc = Head(tx_sq[w])]
  /\ UNCHANGED <<dpaRx, mem, rx_sq, sidecar_tx_sq, sidecar_rx_sq>>

TxCopy ==
  /\ dpaTx.pc = "copy"
  /\ \/ /\ Full(DpuTxHeader)
        /\ dpaTx' = [dpaTx EXCEPT !.pc = "requeue"]
        /\ UNCHANGED mem
     \/ /\ ~Full(DpuTxHeader)
        /\ AllocWrite(DpuTxHeader, ReadSlot(dpaTx.desc.header))
        /\ dpaTx' = [dpaTx EXCEPT !.pc = "free", !.header = NewRef(DpuTxHeader)]
  /\ UNCHANGED <<dpaRx, sqs>>

TxRequeue ==
  /\ dpaTx.pc = "requeue"
  /\ tx_sq' = [tx_sq EXCEPT ![dpaTx.src] = PutBack(@, dpaTx.desc)]
  /\ dpaTx' = IdleTx
  /\ UNCHANGED <<dpaRx, mem, rx_sq, sidecar_tx_sq, sidecar_rx_sq>>

(* The host header is freed; from here on the descriptor names the copy.   *)
TxFree ==
  /\ dpaTx.pc = "free"
  /\ FreeSlot(dpaTx.desc.header)
  /\ dpaTx' = [dpaTx EXCEPT !.pc = "put", !.desc.header = dpaTx.header, !.header = Nil]
  /\ UNCHANGED <<dpaRx, sqs>>

TxPut ==
  /\ dpaTx.pc = "put"
  /\ \/ /\ Room(sidecar_tx_sq)
        /\ sidecar_tx_sq' = Append(sidecar_tx_sq, dpaTx.desc)
        /\ dpaTx' = IdleTx
     \/ /\ ~Room(sidecar_tx_sq)
        /\ dpaTx' = [dpaTx EXCEPT !.pc = "drop"]
        /\ UNCHANGED sidecar_tx_sq
  /\ UNCHANGED <<dpaRx, mem, tx_sq, rx_sq, sidecar_rx_sq>>

(* The DPU header is freed; the body stays allocated and is lost.          *)
TxDrop ==
  /\ dpaTx.pc = "drop"
  /\ FreeSlot(dpaTx.desc.header)
  /\ dpaTx' = IdleTx
  /\ UNCHANGED <<dpaRx, sqs>>

DpaTxStep == TxCopy \/ TxRequeue \/ TxFree \/ TxPut \/ TxDrop
-----------------------------------------------------------------------------
(* _handle_sidecar_rx, _dma_case2, _dma_case3                              *)

RxGet ==
  /\ dpaRx.pc = "poll"
  /\ sidecar_rx_sq # << >>
  /\ sidecar_rx_sq' = Tail(sidecar_rx_sq)
  /\ dpaRx' = [IdleRx EXCEPT !.pc = "body", !.desc = Head(sidecar_rx_sq)]
  /\ UNCHANGED <<dpaTx, mem, tx_sq, rx_sq, sidecar_tx_sq>>

RxCopyBody ==
  LET p == HostPool(dpaRx.desc.dst, "rx_body")
  IN /\ dpaRx.pc = "body"
     /\ \/ /\ Full(p)
           /\ dpaRx' = [dpaRx EXCEPT !.pc = "requeue"]
           /\ UNCHANGED mem
        \/ /\ ~Full(p)
           /\ AllocWrite(p, ReadSlot(dpaRx.desc.body))
           /\ dpaRx' = [dpaRx EXCEPT !.pc = "free_body", !.body = NewRef(p)]
     /\ UNCHANGED <<dpaTx, sqs>>

RxRequeue ==
  /\ dpaRx.pc = "requeue"
  /\ sidecar_rx_sq' = PutBack(sidecar_rx_sq, dpaRx.desc)
  /\ dpaRx' = IdleRx
  /\ UNCHANGED <<dpaTx, mem, tx_sq, rx_sq, sidecar_tx_sq>>

RxFreeBody ==
  /\ dpaRx.pc = "free_body"
  /\ FreeSlot(dpaRx.desc.body)
  /\ dpaRx' = [dpaRx EXCEPT !.desc.body = Nil,
                            !.pc = IF dpaRx.desc.case = "ingress" THEN "put" ELSE "header"]
  /\ UNCHANGED <<dpaTx, sqs>>

(* Case 3 only.  With no room the new body is freed and the descriptor is  *)
(* forgotten, its DPU header still allocated.                              *)
RxCopyHeader ==
  LET p == HostPool(dpaRx.desc.dst, "rx_header")
  IN /\ dpaRx.pc = "header"
     /\ IF Full(p)
        THEN /\ dpaRx' = [dpaRx EXCEPT !.pc = "drop", !.desc = Nil]
             /\ UNCHANGED mem
        ELSE /\ AllocWrite(p, ReadSlot(dpaRx.desc.header))
             /\ dpaRx' = [dpaRx EXCEPT !.pc = "free_header", !.header = NewRef(p)]
     /\ UNCHANGED <<dpaTx, sqs>>

RxFreeHeader ==
  /\ dpaRx.pc = "free_header"
  /\ FreeSlot(dpaRx.desc.header)
  /\ dpaRx' = [dpaRx EXCEPT !.pc = "put", !.desc.header = Nil]
  /\ UNCHANGED <<dpaTx, sqs>>

RxPut ==
  LET w == dpaRx.desc.dst
  IN /\ dpaRx.pc = "put"
     /\ \/ /\ Room(rx_sq[w])
           /\ rx_sq' = [rx_sq EXCEPT ![w] = Append(@,
                          [dpaRx.desc EXCEPT !.header = dpaRx.header, !.body = dpaRx.body])]
           /\ dpaRx' = IdleRx
        \/ /\ ~Room(rx_sq[w])
           /\ dpaRx' = [dpaRx EXCEPT !.pc = "drop"]
           /\ UNCHANGED rx_sq
     /\ UNCHANGED <<dpaTx, mem, tx_sq, sidecar_tx_sq, sidecar_rx_sq>>

(* The copies are freed, the body first.                                   *)
RxDrop ==
  /\ dpaRx.pc = "drop"
  /\ \/ /\ dpaRx.body # Nil
        /\ FreeSlot(dpaRx.body)
        /\ dpaRx' = IF dpaRx.header = Nil THEN IdleRx ELSE [dpaRx EXCEPT !.body = Nil]
     \/ /\ dpaRx.body = Nil
        /\ FreeSlot(dpaRx.header)
        /\ dpaRx' = IdleRx
  /\ UNCHANGED <<dpaTx, sqs>>

DpaRxStep == \/ RxGet \/ RxCopyBody \/ RxRequeue \/ RxFreeBody \/ RxCopyHeader
             \/ RxFreeHeader \/ RxPut \/ RxDrop
=============================================================================
