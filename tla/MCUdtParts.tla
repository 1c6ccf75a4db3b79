----------------------------- MODULE MCUdtParts -----------------------------
(***************************************************************************)
(* The parts of UDT that have a module of their own, checked one beside    *)
(* the other: in a behaviour one part moves, and the others stay in their  *)
(* first state.  How parts work together is checked in UdtTransfer,        *)
(* UdtMessages, UdtRendezvous and UdtSockets.                              *)
(***************************************************************************)
EXTENDS UdtSeqWindow, UdtSndLossList, UdtRcvLossList, UdtAckWindow, UdtSndBuffer,
        UdtRcvBuffer, UdtUnits, UdtSndQueue, UdtRcvQueue, UdtPassed, UdtPeerCache,
        UdtSettings, UdtEpoll

VARIABLE which \* the part that moves

\* An order of times that every insertion keeps, and none.
MCSndHeaps == {<<>>, <<1, 3, 2, 3, 3, 2>>}
MCDefaults == [mss |-> 3, fc |-> 4, rcv |-> 3, udpSnd |-> 4, udpRcv |-> 4]
MCCacheKeys == {-1, 1, 2, 10, 19}

PartNames ==
  {"seqno", "snd_list", "rcv_list", "ack_window", "snd_buffer", "rcv_buffer", "units", "snd_queue", "rcv_queue",
   "passed", "cache", "settings", "epoll"}

\* A part that does not move has one first state.
PartsInit ==
  /\ which \in PartNames
  /\ Init /\ SndListInit /\ RcvListInit /\ AckWindowInit /\ SndBufferInit /\ RcvBufferInit
  /\ UnitsInit /\ SndQueueInit /\ RcvQueueInit /\ PassedInit /\ CacheInit
  /\ SettingsInit /\ EpollInit
  /\ which # "seqno" => first = 0
  /\ which # "snd_queue" => heap = <<>>
  /\ which # "settings" => rendezvous

partsVars ==
  <<which, vars, sndListVars, rcvListVars, ackWindowVars, sndBufferVars,
    rcvBufferVars, unitVars, sndQueueVars, rcvQueueVars, passedVars,
    cacheVars, settingsVars, epollVars>>

\* One disjunct for each part.
PartsNext ==
  \/ /\ which = "seqno" /\ Next
     /\ UNCHANGED <<which, sndListVars, rcvListVars, ackWindowVars, sndBufferVars, rcvBufferVars,
                    unitVars, sndQueueVars, rcvQueueVars, passedVars, cacheVars, settingsVars,
                    epollVars>>
  \/ /\ which = "snd_list" /\ SndListNext
     /\ UNCHANGED <<which, vars, rcvListVars, ackWindowVars, sndBufferVars, rcvBufferVars,
                    unitVars, sndQueueVars, rcvQueueVars, passedVars, cacheVars, settingsVars,
                    epollVars>>
  \/ /\ which = "rcv_list" /\ RcvListNext
     /\ UNCHANGED <<which, vars, sndListVars, ackWindowVars, sndBufferVars, rcvBufferVars,
                    unitVars, sndQueueVars, rcvQueueVars, passedVars, cacheVars, settingsVars,
                    epollVars>>
  \/ /\ which = "ack_window" /\ AckWindowNext
     /\ UNCHANGED <<which, vars, sndListVars, rcvListVars, sndBufferVars, rcvBufferVars,
                    unitVars, sndQueueVars, rcvQueueVars, passedVars, cacheVars, settingsVars,
                    epollVars>>
  \/ /\ which = "snd_buffer" /\ SndBufferNext
     /\ UNCHANGED <<which, vars, sndListVars, rcvListVars, ackWindowVars, rcvBufferVars,
                    unitVars, sndQueueVars, rcvQueueVars, passedVars, cacheVars, settingsVars,
                    epollVars>>
  \/ /\ which = "rcv_buffer" /\ RcvBufferNext
     /\ UNCHANGED <<which, vars, sndListVars, rcvListVars, ackWindowVars, sndBufferVars,
                    unitVars, sndQueueVars, rcvQueueVars, passedVars, cacheVars, settingsVars,
                    epollVars>>
  \/ /\ which = "units" /\ UnitsNext
     /\ UNCHANGED <<which, vars, sndListVars, rcvListVars, ackWindowVars, sndBufferVars,
                    rcvBufferVars, sndQueueVars, rcvQueueVars, passedVars, cacheVars,
                    settingsVars, epollVars>>
  \/ /\ which = "snd_queue" /\ SndQueueNext
     /\ UNCHANGED <<which, vars, sndListVars, rcvListVars, ackWindowVars, sndBufferVars,
                    rcvBufferVars, unitVars, rcvQueueVars, passedVars, cacheVars, settingsVars,
                    epollVars>>
  \/ /\ which = "rcv_queue" /\ RcvQueueNext
     /\ UNCHANGED <<which, vars, sndListVars, rcvListVars, ackWindowVars, sndBufferVars,
                    rcvBufferVars, unitVars, sndQueueVars, passedVars, cacheVars, settingsVars,
                    epollVars>>
  \/ /\ which = "passed" /\ PassedNext
     /\ UNCHANGED <<which, vars, sndListVars, rcvListVars, ackWindowVars, sndBufferVars,
                    rcvBufferVars, unitVars, sndQueueVars, rcvQueueVars, cacheVars, settingsVars,
                    epollVars>>
  \/ /\ which = "cache" /\ CacheNext
     /\ UNCHANGED <<which, vars, sndListVars, rcvListVars, ackWindowVars, sndBufferVars,
                    rcvBufferVars, unitVars, sndQueueVars, rcvQueueVars, passedVars,
                    settingsVars, epollVars>>
  \/ /\ which = "settings" /\ SettingsNext
     /\ UNCHANGED <<which, vars, sndListVars, rcvListVars, ackWindowVars, sndBufferVars,
                    rcvBufferVars, unitVars, sndQueueVars, rcvQueueVars, passedVars, cacheVars,
                    epollVars>>
  \/ /\ which = "epoll" /\ EpollNext
     /\ UNCHANGED <<which, vars, sndListVars, rcvListVars, ackWindowVars, sndBufferVars,
                    rcvBufferVars, unitVars, sndQueueVars, rcvQueueVars, passedVars, cacheVars,
                    settingsVars>>

PartsSpec == PartsInit /\ [][PartsNext]_partsVars
=============================================================================
