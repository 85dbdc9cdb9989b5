--------------------------- MODULE ReadinessState ---------------------------
(***************************************************************************)
(* The packed state word of a readiness node (src/src/poll.rs,             *)
(* `ReadinessState`), as a record instead of a bit-packed usize.  Every    *)
(* field of the word is a field of the record:                             *)
(*                                                                         *)
(*   readiness, interest : subsets of the readiness flags (4 bits each)    *)
(*   opt                 : subset of {"edge","level","oneshot"}            *)
(*   tokRd, tokWr        : token slot indices in 0..2 (2 bits each)        *)
(*   queued, dropped     : the two flag bits                               *)
(*                                                                         *)
(* The bit layout is a bijection with this record for the values the code  *)
(* stores (each field is masked to its width), so the encoding/decoding    *)
(* of `get`/`set` is modelled by field access.                             *)
(***************************************************************************)
EXTENDS Naturals

\* ReadinessState::new: interest and opt set, everything else zero.
NewState(interest, opt) ==
    [readiness |-> {}, interest |-> interest, opt |-> opt,
     tokRd |-> 0, tokWr |-> 0, queued |-> FALSE, dropped |-> FALSE]

\* ReadinessState::effective_readiness
EffectiveReadiness(s) == s.readiness \cap s.interest

\* PollOpt::is_edge / is_oneshot; an opt without "edge" is level-triggered.
IsEdge(opt) == "edge" \in opt
IsOneshot(opt) == "oneshot" \in opt

\* ReadinessState::set_queued when there is effective readiness, as done at
\* the end of both CAS loops of set_readiness and update.
QueueIfReady(s) ==
    IF EffectiveReadiness(s) # {} THEN [s EXCEPT !.queued = TRUE] ELSE s


\* ReadinessState::next_token_pos: the match table of the code, written as
\* a function of (wr, rd).
NextTokenPos(s) ==
    LET tbl == [w \in 0..2 |-> [r \in 0..2 |->
                  CASE w = 0 -> (IF r = 1 THEN 2 ELSE 1)
                    [] w = 1 -> (IF r = 0 THEN 2 ELSE IF r = 2 THEN 0 ELSE 2)
                    [] w = 2 -> (IF r = 0 THEN 1 ELSE 0)]]
    IN tbl[s.tokWr][s.tokRd]

\* ReadinessState::update_token_read_pos.  The code reads token_write_pos
\* and stores it back with TOKEN_WR_SHIFT, i.e. into the write position,
\* so the read position is left as it was.
UpdateTokenReadPos(s) == [s EXCEPT !.tokWr = s.tokWr]

\* The consumer's state transition in ReadinessQueue::poll for a node that
\* is not dropped: clear `queued` for edge nodes (disarming oneshot ones
\* that fire) and for level nodes without effective readiness, then update
\* the token read position.
ConsumeState(s) ==
    LET rdy == EffectiveReadiness(s)
        s1  == IF IsEdge(s.opt)
                 THEN [s EXCEPT !.queued = FALSE,
                                !.interest = IF IsOneshot(s.opt) /\ rdy # {}
                                               THEN {} ELSE @]
                 ELSE IF rdy = {} THEN [s EXCEPT !.queued = FALSE] ELSE s
    IN UpdateTokenReadPos(s1)

=============================================================================
