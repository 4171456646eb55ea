------------------------------- MODULE Signal -------------------------------
(***************************************************************************)
(* The signals of one process (proc.c): the lock-free stack of pending     *)
(* signals, to which senders on other CPUs push, and fix_tf, which pops    *)
(* one on the way back to user mode and redirects the process to its       *)
(* handler.  fix_tf also runs when an interrupt returns into the kernel,   *)
(* and so in the middle of a system call and of another fix_tf.            *)
(***************************************************************************)
EXTENDS Integers, Sequences

CONSTANTS
  Sender,               \* the processes that call sigsend
  MAX_CSTACK_FRAMES,
  MaxSend               \* bound: the number of signals they send

ASSUME SignalAssumption ==
  /\ MAX_CSTACK_FRAMES \in Nat \ {0}
  /\ MaxSend \in Nat
  /\ 0 \notin Sender

Frame == 1 .. MAX_CSTACK_FRAMES
NULL == 0

\* A signal is a sender and a value; the value tells the signals apart.
Signals == Sender \X (1 .. MaxSend)

VARIABLES
  used, sender_pid, value, next,   \* the fields of the frames
  head,
  list,       \* history: the frames between the CAS that links and the one that unlinks
  spc, csf, arg,   \* per sender: program counter, local and argument of push
  sent,       \* the number of signals sent so far
  act,        \* the kernel activations of the process, the innermost one last
  sighandler, handling_signal,
  tf, old_tf  \* what the process executes in user mode, and the backup of it

frames == <<used, sender_pid, value, next>>
senders == <<spc, csf, arg, sent>>
user == <<sighandler, handling_signal, tf, old_tf>>
vars == <<frames, head, list, senders, act, user>>

\* A trap frame: which code it returns to, and what eax holds: a value of the program's own, the number of the system call
\* it is making, or the result of a call (that of sigret is kept apart).
Context(code, x) == [at |-> code, eax |-> x]

\* An activation: where it is, the system call it serves ("irq" for a timer
\* interrupt, during which interrupts are off), and the locals csf and next of
\* pop; signal is the one that pop unlinked (history), args are what fix_tf
\* reads from its frame later.
Activation(l, call) ==
  [pc |-> l, call |-> call, csf |-> NULL, next |-> NULL, signal |-> <<>>, args |-> <<>>]

Init ==
  /\ used = [f \in Frame |-> FALSE]
  /\ sender_pid = [f \in Frame |-> NULL]
  /\ value = [f \in Frame |-> 0]
  /\ next = [f \in Frame |-> NULL]
  /\ head = NULL
  /\ list = <<>>
  /\ spc = [s \in Sender |-> "idle"]
  /\ csf = [s \in Sender |-> NULL]
  /\ arg = [s \in Sender |-> 0]
  /\ sent = 0
  /\ act = <<>>
  /\ sighandler = "default"
  /\ handling_signal = FALSE
  /\ tf = Context("main", "own")
  /\ old_tf = Context("main", "own")

-----------------------------------------------------------------------------
(* fix_tf with a signal to handle, on top of a fix_tf that has tested      *)
(* handling_signal and not yet set it: both would redirect the process.    *)
(* A behaviour ends there.                                                 *)

Unflagged == {"pop", "popnext", "popcas", "test", "backup", "flag"}
Holding == {"backup", "flag", "release", "arg2", "arg1", "eip"}

Overlapping ==
  Len(act) = 2 /\ act[1].pc \in Unflagged /\ act[2].pc \in Holding

-----------------------------------------------------------------------------
(* sigsend() and push().                                                   *)

SenderAt(s, l) == spc[s] = l /\ ~Overlapping

SigSend(s) ==
  /\ SenderAt(s, "idle") /\ sent < MaxSend
  /\ sent' = sent + 1
  /\ arg' = [arg EXCEPT ![s] = sent']
  /\ csf' = [csf EXCEPT ![s] = 1]
  /\ spc' = [spc EXCEPT ![s] = "scan"]
  /\ UNCHANGED <<frames, head, list, act, user>>

SendReturns(s) ==
  /\ spc' = [spc EXCEPT ![s] = "idle"]
  /\ csf' = [csf EXCEPT ![s] = NULL]
  /\ arg' = [arg EXCEPT ![s] = 0]

\* Variant: the frame is taken without the CAS.
PushScanRace(s) ==
  /\ SenderAt(s, "scan")
  /\ used' = [used EXCEPT ![csf[s]] = TRUE]
  /\ spc' = [spc EXCEPT ![s] = "sender"]
  /\ UNCHANGED <<sender_pid, value, next, head, list, csf, arg, sent, act, user>>

\* cas(&csf->used, 0, 1) in the loop over the frames; push fails at its end.
PushScan(s) ==
  /\ SenderAt(s, "scan")
  /\ \/ /\ ~used[csf[s]]
        /\ used' = [used EXCEPT ![csf[s]] = TRUE]
        /\ spc' = [spc EXCEPT ![s] = "sender"]
        /\ UNCHANGED <<csf, arg>>
     \/ /\ used[csf[s]] /\ csf[s] < MAX_CSTACK_FRAMES
        /\ csf' = [csf EXCEPT ![s] = @ + 1]
        /\ UNCHANGED <<used, spc, arg>>
     \/ /\ used[csf[s]] /\ csf[s] = MAX_CSTACK_FRAMES
        /\ SendReturns(s)
        /\ UNCHANGED used
  /\ UNCHANGED <<sender_pid, value, next, head, list, sent, act, user>>

PushSender(s) ==
  /\ SenderAt(s, "sender")
  /\ sender_pid' = [sender_pid EXCEPT ![csf[s]] = s]
  /\ spc' = [spc EXCEPT ![s] = "value"]
  /\ UNCHANGED <<used, value, next, head, list, csf, arg, sent, act, user>>

PushValue(s) ==
  /\ SenderAt(s, "value")
  /\ value' = [value EXCEPT ![csf[s]] = arg[s]]
  /\ spc' = [spc EXCEPT ![s] = "next"]
  /\ UNCHANGED <<used, sender_pid, next, head, list, csf, arg, sent, act, user>>

PushNext(s) ==
  /\ SenderAt(s, "next")
  /\ next' = [next EXCEPT ![csf[s]] = head]
  /\ spc' = [spc EXCEPT ![s] = "cas"]
  /\ UNCHANGED <<used, sender_pid, value, head, list, csf, arg, sent, act, user>>


PushCas(s) ==
  /\ SenderAt(s, "cas")
  /\ IF head = next[csf[s]]
     THEN /\ head' = csf[s]
          /\ list' = <<csf[s]>> \o list
          /\ spc' = [spc EXCEPT ![s] = "wakeup"]
     ELSE /\ spc' = [spc EXCEPT ![s] = "next"]
          /\ UNCHANGED <<head, list>>
  /\ UNCHANGED <<frames, csf, arg, sent, act, user>>

\* wakeup(p->chan): the process may be asleep in sigpause.
Wakeup(s) ==
  /\ SenderAt(s, "wakeup")
  /\ act' = IF act # <<>> /\ act[1].pc = "asleep"
            THEN [act EXCEPT ![1].pc = "sigpause"] ELSE act
  /\ SendReturns(s)
  /\ UNCHANGED <<frames, head, list, sent, user>>

-----------------------------------------------------------------------------
(* Traps of the process.                                                   *)

\* The innermost activation is the one that runs.
Top == act[Len(act)]
TopAt(l) == act # <<>> /\ Top.pc = l /\ ~Overlapping
Jump(l) == act' = [act EXCEPT ![Len(act)].pc = l]

\* A program sets a handler, pauses, or makes some other call; the code that
\* fix_tf leaves on the user stack calls sigret when a handler returns.
Syscall ==
  /\ act = <<>> /\ ~Overlapping
  /\ \E call \in {"sigset", "sigpause", "exec", "sigret"} :
       /\ call = "sigret" => tf.at = "handler"
       /\ act' = <<Activation(call, call)>>
  /\ tf' = [tf EXCEPT !.eax = "call"]
  /\ UNCHANGED <<frames, head, list, senders, sighandler, handling_signal, old_tf>>

\* A timer interrupt, in user mode or on top of a system call.  Its trap()
\* does not set proc->tf, which is still the user's when fix_tf looks at it.
Timer ==
  /\ ~Overlapping
  /\ \/ act = <<>> /\ tf' = [tf EXCEPT !.eax = "own"]
     \/ /\ Len(act) = 1 /\ act[1].call # "irq" /\ act[1].pc # "asleep"
        /\ UNCHANGED tf
  /\ act' = Append(act, Activation("fix_tf", "irq"))
  /\ UNCHANGED <<frames, head, list, senders, sighandler, handling_signal, old_tf>>

SigSet ==
  /\ TopAt("sigset")
  /\ \E h \in {"default", "set"} : sighandler' = h
  /\ Jump("eax")
  /\ UNCHANGED <<frames, head, list, senders, handling_signal, tf, old_tf>>

\* exec() commits a new image, with the default handler.
Exec ==
  /\ TopAt("exec")
  /\ tf' = Context("main", tf.eax)
  /\ sighandler' = "default"
  /\ Jump("eax")
  /\ UNCHANGED <<frames, head, list, senders, handling_signal, old_tf>>

SigRet ==
  /\ TopAt("sigret")
  /\ tf' = old_tf
  /\ handling_signal' = FALSE
  /\ Jump("eax")
  /\ UNCHANGED <<frames, head, list, senders, sighandler, old_tf>>

\* sigpause() returns when is_empty(), and otherwise sleeps.
SigPause ==
  /\ TopAt("sigpause")
  /\ Jump(IF head = NULL THEN "eax" ELSE "asleep")
  /\ UNCHANGED <<frames, head, list, senders, user>>

\* syscall() stores the result of the call in the frame.
StoreResult ==
  /\ TopAt("eax")
  /\ tf' = [tf EXCEPT !.eax = IF Top.call = "sigret" THEN "sigret" ELSE "result"]
  /\ Jump("fix_tf")
  /\ UNCHANGED <<frames, head, list, senders, sighandler, handling_signal, old_tf>>

-----------------------------------------------------------------------------
(* fix_tf() and pop().                                                     *)

\* The return of fix_tf: to user mode, or to the interrupted kernel code.
Done == act' = SubSeq(act, 1, Len(act) - 1)


FixTf ==
  /\ TopAt("fix_tf")
  /\ IF handling_signal THEN Done ELSE Jump("pop")
  /\ UNCHANGED <<frames, head, list, senders, user>>

PopHead ==
  /\ TopAt("pop")
  /\ IF head = NULL
     THEN Done
     ELSE act' = [act EXCEPT ![Len(act)].csf = head, ![Len(act)].pc = "popnext"]
  /\ UNCHANGED <<frames, head, list, senders, user>>

PopNext ==
  /\ TopAt("popnext")
  /\ act' = [act EXCEPT ![Len(act)].next = next[Top.csf], ![Len(act)].pc = "popcas"]
  /\ UNCHANGED <<frames, head, list, senders, user>>

SignalIn(f) == <<sender_pid[f], value[f]>>

\* Variant: pop releases the frame, and fix_tf releases it again.
PopCasReleases ==
  /\ TopAt("popcas") /\ head = Top.csf
  /\ head' = Top.next
  /\ list' = Tail(list)
  /\ used' = [used EXCEPT ![Top.csf] = FALSE]
  /\ act' = [act EXCEPT ![Len(act)].signal = SignalIn(Top.csf), ![Len(act)].pc = "test"]
  /\ UNCHANGED <<sender_pid, value, next, senders, user>>

PopCas ==
  /\ TopAt("popcas")
  /\ IF head = Top.csf
     THEN /\ head' = Top.next
          /\ list' = Tail(list)
          /\ act' = [act EXCEPT ![Len(act)].signal = SignalIn(Top.csf), ![Len(act)].pc = "test"]
     ELSE /\ Jump("pop")
          /\ UNCHANGED <<head, list>>
  /\ UNCHANGED <<frames, senders, user>>

\* With the default handler the signal is dropped, and its frame stays used.
TestHandler ==
  /\ TopAt("test")
  /\ IF sighandler = "default" THEN Done ELSE Jump("backup")
  /\ UNCHANGED <<frames, head, list, senders, user>>

Backup ==
  /\ TopAt("backup")
  /\ old_tf' = tf
  /\ Jump("flag")
  /\ UNCHANGED <<frames, head, list, senders, sighandler, handling_signal, tf>>

Flag ==
  /\ TopAt("flag")
  /\ handling_signal' = TRUE
  /\ Jump("release")
  /\ UNCHANGED <<frames, head, list, senders, sighandler, tf, old_tf>>

Release ==
  /\ TopAt("release")
  /\ used' = [used EXCEPT ![Top.csf] = FALSE]
  /\ Jump("arg2")
  /\ UNCHANGED <<sender_pid, value, next, head, list, senders, user>>

\* The frame is read after it has been released.
ReadValue ==
  /\ TopAt("arg2")
  /\ act' = [act EXCEPT ![Len(act)].args = <<value[Top.csf]>>, ![Len(act)].pc = "arg1"]
  /\ UNCHANGED <<frames, head, list, senders, user>>

\* Variant: the arguments are pushed in the wrong order.
ReadSenderSwapped ==
  /\ TopAt("arg1")
  /\ act' = [act EXCEPT ![Len(act)].args = Append(@, sender_pid[Top.csf]),
                       ![Len(act)].pc = "eip"]
  /\ UNCHANGED <<frames, head, list, senders, user>>

ReadSender ==
  /\ TopAt("arg1")
  /\ act' = [act EXCEPT ![Len(act)].args = <<sender_pid[Top.csf]>> \o @,
                       ![Len(act)].pc = "eip"]
  /\ UNCHANGED <<frames, head, list, senders, user>>

SetEip ==
  /\ TopAt("eip")
  /\ tf' = Context("handler", tf.eax)
  /\ Done
  /\ UNCHANGED <<frames, head, list, senders, sighandler, handling_signal, old_tf>>

-----------------------------------------------------------------------------
Send(s) ==
  \/ SigSend(s) \/ PushScan(s) \/ PushSender(s) \/ PushValue(s)
  \/ PushNext(s) \/ PushCas(s) \/ Wakeup(s)

Receive ==
  \/ Syscall \/ Timer \/ SigSet \/ Exec \/ SigRet \/ SigPause \/ StoreResult
  \/ FixTf \/ PopHead \/ PopNext \/ PopCas \/ TestHandler \/ Backup \/ Flag
  \/ Release \/ ReadValue \/ ReadSender \/ SetEip

Next == Receive \/ \E s \in Sender : Send(s)

Spec == Init /\ [][Next]_vars

-----------------------------------------------------------------------------
(* Properties.                                                             *)

Labels == {"sigset", "sigpause", "exec", "sigret", "asleep", "eax", "fix_tf"}
            \cup Unflagged \cup Holding
Contexts == [at : {"main", "handler"}, eax : {"own", "call", "result", "sigret"}]

\* The types of the variables.
TypeOK ==
  /\ used \in [Frame -> BOOLEAN]
  /\ sender_pid \in [Frame -> Sender \cup {NULL}]
  /\ value \in [Frame -> 0 .. MaxSend]
  /\ next \in [Frame -> Frame \cup {NULL}]
  /\ head \in Frame \cup {NULL}
  /\ list \in Seq(Frame)
  /\ spc \in [Sender -> {"idle", "scan", "sender", "value", "next", "cas", "wakeup"}]
  /\ csf \in [Sender -> Frame \cup {NULL}]
  /\ arg \in [Sender -> 0 .. MaxSend]
  /\ sent \in 0 .. MaxSend
  /\ act \in Seq([pc : Labels, call : {"sigset", "sigpause", "exec", "sigret", "irq"},
                  csf : Frame \cup {NULL}, next : Frame \cup {NULL},
                  signal : Signals \cup {<<>>}, args : Seq(Sender \cup Nat)])
  /\ Len(act) <= 2
  /\ sighandler \in {"default", "set"}
  /\ handling_signal \in BOOLEAN
  /\ {tf, old_tf} \subseteq Contexts

\* The frames a sender has claimed and not linked yet.
Claims(s) == spc[s] \in {"sender", "value", "next", "cas"}

\* The frames fix_tf has unlinked and not released yet.
Holds(f) ==
  \E i \in DOMAIN act : act[i].pc \in {"test", "backup", "flag", "release"} /\ act[i].csf = f

\* A frame of the stack has one owner (push 670, fix_tf 755): the sender that
\* claimed it, the list, or the fix_tf that popped it; while it has, it is used.
OneOwner ==
  /\ \A s \in Sender : Claims(s) => used[csf[s]]
  /\ \A s, t \in Sender : Claims(s) /\ Claims(t) /\ csf[s] = csf[t] => s = t
  /\ \A i \in DOMAIN list :
       /\ used[list[i]] /\ ~Holds(list[i])
       /\ \A s \in Sender : Claims(s) => csf[s] # list[i]
       /\ \A j \in DOMAIN list : list[i] = list[j] => i = j
  /\ \A f \in Frame : Holds(f) => used[f] /\ \A s \in Sender : Claims(s) => csf[s] # f


\* Unless a sender has claimed the frame again after its release (fix_tf 755),
\* the handler is entered with the sender and the value of the signal popped.
ArgsOfSignal ==
  \A i \in DOMAIN act :
    act[i].pc = "eip" /\ ~used[act[i].csf] => act[i].args = act[i].signal


\* The list is the stack of proc.h 51-59, push and pop at their successful CAS.
Stack == INSTANCE SignalStack WITH
  Signal <- Signals, Depth <- MAX_CSTACK_FRAMES,
  stack <- [i \in DOMAIN list |-> SignalIn(list[i])]

StackSpec == Stack!Spec

\* fix_tf handles one signal at a time (the comment at 742): no fix_tf holds a
\* signal on top of one that has yet to set the flag.
OneSignalAtATime == ~Overlapping

\* A program that handled a signal goes on with the registers it had (the trap
\* frame is backed up at 738-739 and restored at 608-609).
ContextRestored == act = <<>> /\ tf.at = "main" => tf.eax # "sigret"

=============================================================================
