------------------------------- MODULE HdaPath -------------------------------
(***************************************************************************)
(* The Path Parser and the Path Store of the HD-Audio generic parser       *)
(* (sound/pci/hda/hda_generic.c, lines 85-342).                            *)
(*                                                                         *)
(* The store (spec->paths) is a sequence of nid_path records; a handle is  *)
(* a 1-based index, 0 meaning "none".  A record keeps                      *)
(*   path  : the widgets from source to sink (path[0..depth-1] in C),      *)
(*   idx   : for each widget, the connection index it takes its input at,  *)
(*   multi : for each widget, whether a connect-select write is needed,    *)
(*   ctls  : the amp controls bound to the path (vol, mute, boost),        *)
(*   active: whether the path is switched on.                              *)
(* An invalidated record is all zeroes (depth 0).                          *)
(***************************************************************************)
EXTENDS HdaGraph

CONSTANT MaxDepth   \* MAX_NID_PATH_DEPTH

CtlTypes == {"vol", "mute", "boost"}
NoCtl == [nid |-> 0, dir |-> 0, idx |-> 0]
NoCtls == [t \in CtlTypes |-> NoCtl]

\* a record cleared by memset(path, 0, sizeof(*path))
EmptyPath == [path |-> <<>>, idx |-> <<>>, multi |-> <<>>,
              ctls |-> NoCtls, active |-> FALSE]

\* the result of a failed search
NoPath == [found |-> FALSE]

Depth(p) == Len(p.path)
\* path->path[0] of a record; 0 for a cleared one
PathHead(p) == IF p.path = <<>> THEN 0 ELSE p.path[1]
PathTail(p) == IF p.path = <<>> THEN 0 ELSE p.path[Len(p.path)]

\* is_nid_contained() / find_idx_in_nid_list(); the argument is an
\* hda_nid_t, so a negative int reaches it wrapped to 16 bits.
IsNidContained(p, nid) == \E k \in DOMAIN p.path : p.path[k] = U16(nid)

\* get_nid_path() without the anchor test: a cached path is reused for any
\* anchor, as if the lookup matched on the two ends only
GetNidPathIgnoringAnchor(store, from, to, anchor) ==
    LET Ok(i) == /\ Depth(store[i]) > 0
                 /\ from = 0 \/ PathHead(store[i]) = from
                 /\ to = 0 \/ PathTail(store[i]) = to
        hits == {i \in DOMAIN store : Ok(i)}
    IN  IF hits = {} THEN 0 ELSE CHOOSE i \in hits : \A j \in hits : i <= j

\* get_nid_path(): the first stored path with the given ends (0 is a
\* wildcard) that passes the anchor test; 0 when there is none.
GetNidPath(store, from, to, anchor) ==
    LET Ok(i) ==
          LET p == store[i] IN
          /\ Depth(p) > 0
          /\ from = 0 \/ PathHead(p) = from
          /\ to = 0 \/ PathTail(p) = to
          /\ \/ anchor = 0
             \/ anchor > 0 /\ IsNidContained(p, anchor)
             \/ anchor < 0 /\ ~IsNidContained(p, anchor)
        hits == {i \in DOMAIN store : Ok(i)}
    IN  IF hits = {} THEN 0 ELSE CHOOSE i \in hits : \A j \in hits : i <= j

\* is_dac_already_used(): some stored path starts at the DAC
IsDacAlreadyUsed(store, nid) == \E i \in DOMAIN store : PathHead(store[i]) = nid

\* the widget types the search may pass through: not a converter or a pin
PassThrough(n) == WType[n] \notin {"AudOut", "AudIn", "Pin"}

\* multi[] set for every widget with several inputs, mixers included
NeedsSelectEvenForMixer(n) == Len(Conn[n]) > 1

\* multi[]: a widget with several inputs that is not a mixer needs its
\* connection select written when the path is activated
NeedsSelect(n) == Len(Conn[n]) > 1 /\ WType[n] # "AudMix"

(***************************************************************************)
(* __parse_nid_path(): depth-first search backward from to_nid.  The       *)
(* result holds the widgets found below to_nid (source first) with their   *)
(* idx/multi entries, plus one more idx/multi entry for to_nid itself,     *)
(* which the caller one level up appends.  At each level the connections   *)
(* of to_nid are first scanned for the source itself (or, when from_nid is *)
(* 0, for an unused DAC), and only then searched through mixers and        *)
(* selectors, one level deeper, up to MaxDepth.                            *)
(***************************************************************************)
RECURSIVE ParseFrom(_, _, _, _, _)
ParseFrom(store, from, to, anchor0, depth) ==
    LET anchor == IF to = anchor0 THEN 0 ELSE anchor0
        c == Conn[to]
        m == NeedsSelect(to)
        Found(i, sub) == [found |-> TRUE,
                          nodes |-> sub.nodes \o <<c[i]>>,
                          idx   |-> sub.idx \o <<i - 1>>,
                          multi |-> sub.multi \o <<m>>]
        Source == [nodes |-> <<>>, idx |-> <<0>>, multi |-> <<FALSE>>]
        IsSource(n) ==
            \/ n = from
            \/ from = 0 /\ WType[n] = "AudOut" /\ ~IsDacAlreadyUsed(store, n)
        direct == {i \in DOMAIN c : IsSource(c[i])}
        RECURSIVE Through(_)
        Through(i) ==
            IF i > Len(c) THEN NoPath
            ELSE IF ~PassThrough(c[i]) THEN Through(i + 1)
            ELSE LET sub == ParseFrom(store, from, c[i], anchor, depth + 1)
                 IN  IF sub.found THEN Found(i, sub) ELSE Through(i + 1)
    IN  IF to # anchor0 /\ to = U16(-anchor0) THEN NoPath
        ELSE IF anchor <= 0 /\ direct # {}
             THEN Found(CHOOSE i \in direct : \A j \in direct : i <= j, Source)
        ELSE IF depth >= MaxDepth THEN NoPath
        ELSE Through(1)

\* snd_hda_parse_nid_path(): the search from depth 1, then to_nid appended
ParseNidPath(store, from, to, anchor) ==
    LET r == ParseFrom(store, from, to, anchor, 1)
    IN  IF ~r.found THEN NoPath
        ELSE [EmptyPath EXCEPT !.path = r.nodes \o <<to>>,
                               !.idx = r.idx, !.multi = r.multi]

(***************************************************************************)
(* snd_hda_add_new_path(): refuse an unreachable pair, return a stored     *)
(* path that already fits, else reserve a zeroed slot, parse into it, and  *)
(* give the slot back (paths.used--) when parsing fails.  The result is    *)
(* the new store and the handle of the path, 0 for NULL.                   *)
(***************************************************************************)
AddNewPath(store, from, to, anchor) ==
    LET hit == GetNidPath(store, from, to, anchor)
        p == ParseNidPath(store, from, to, anchor)
    IN  IF from # 0 /\ to # 0 /\ ~IsReachablePath(from, to)
        THEN [store |-> store, ret |-> 0]
        ELSE IF hit # 0 THEN [store |-> store, ret |-> hit]
        ELSE IF p = NoPath THEN [store |-> store, ret |-> 0]
        ELSE [store |-> Append(store, p), ret |-> Len(store) + 1]

\* snd_hda_get_path_from_idx(): the record of a handle, if the handle is valid
ValidHandle(store, i) == i \in 1..Len(store)

\* invalidate_nid_path() that only zeroes path[0] and keeps the depth
InvalidateHeadOnly(store, i) ==
    IF ValidHandle(store, i) THEN [store EXCEPT ![i].path[1] = 0] ELSE store

\* invalidate_nid_path(): clear a stored record so no lookup finds it again
InvalidateNidPath(store, i) ==
    IF ValidHandle(store, i) THEN [store EXCEPT ![i] = EmptyPath] ELSE store

(***************************************************************************)
(* Control assignment.  A ctl value HDA_COMPOSE_AMP_VAL(nid, 3, idx, dir)  *)
(* is kept as the record [nid, dir, idx] that AMP_VAL_COMPARE_MASK         *)
(* compares; NoCtl (nid 0) is the empty value 0.                           *)
(***************************************************************************)
BAD_SHARED_VOL == 16

AmpVal(nid, idx, dir) == [nid |-> nid, dir |-> dir, idx |-> idx]

\* is_ctl_used(): some stored path has the value as its ctl of the type
IsCtlUsed(store, val, type) == \E i \in DOMAIN store : store[i].ctls[type] = val

\* is_ctl_associated(): a volume or mute ctl controls the amp
IsCtlAssociated(store, nid, dir, idx) ==
    IsCtlUsed(store, AmpVal(nid, idx, dir), "vol") \/
    IsCtlUsed(store, AmpVal(nid, idx, dir), "mute")

\* the widget at the largest of the positions ks of the path, or 0
LastWidgetWith(p, ks) ==
    IF ks = {} THEN 0 ELSE p.path[CHOOSE k \in ks : \A j \in ks : j <= k]

\* look_for_out_vol_nid(): the widget nearest the pin with an output volume
LookForOutVolNid(p) ==
    LastWidgetWith(p, {k \in DOMAIN p.path : NidHasVolume(p.path[k], HDA_OUTPUT)})

\* look_for_out_mute_nid(): nearest the pin, an output mute, or an input
\* mute on a widget that is neither end of the path
LookForOutMuteNid(p) ==
    LastWidgetWith(p, {k \in DOMAIN p.path :
        \/ NidHasMute(p.path[k], HDA_OUTPUT)
        \/ k # Len(p.path) /\ k # 1 /\ NidHasMute(p.path[k], HDA_INPUT)})

\* assign_out_path_ctls(): bind a volume and a mute ctl to the path unless
\* it has one already; a ctl another path owns costs BAD_SHARED_VOL, and a
\* NULL path (an invalid handle) costs it twice
AssignOutPathCtls(store, i) ==
    IF ~ValidHandle(store, i) THEN [store |-> store, badness |-> BAD_SHARED_VOL * 2] ELSE
    LET p == store[i]
        vn == LookForOutVolNid(p)
        mn == LookForOutMuteNid(p)
        vval == AmpVal(vn, 0, HDA_OUTPUT)
        mval == AmpVal(mn, 0, IF WType[mn] \in {"Pin", "AudOut"} \/ NidHasMute(mn, HDA_OUTPUT)
                             THEN HDA_OUTPUT ELSE HDA_INPUT)
        setVol == vn # 0 /\ ~IsCtlUsed(store, vval, "vol")
        setMute == mn # 0 /\ ~IsCtlUsed(store, mval, "mute")
    IN  IF p.ctls.vol # NoCtl \/ p.ctls.mute # NoCtl
        THEN [store |-> store, badness |-> 0]
        ELSE [store |-> [store EXCEPT
                           ![i].ctls.vol = IF setVol THEN vval ELSE @,
                           ![i].ctls.mute = IF setMute THEN mval ELSE @],
              badness |-> (IF setVol THEN 0 ELSE BAD_SHARED_VOL)
                          + (IF setMute THEN 0 ELSE BAD_SHARED_VOL)]

\* parse_capvol_in_path(): from the ADC end, the first of the last three
\* widgets with an output amp, else an input amp (at the path's index),
\* gives the capture volume, and likewise the capture switch
ParseCapvolInPath(store, i) ==
    LET p == store[i]
        n == Len(p.path)
        near == {k \in DOMAIN p.path : k > n - 3}
        Pick(has(_, _)) ==
            LET ks == {k \in near : has(p.path[k], HDA_OUTPUT) \/ has(p.path[k], HDA_INPUT)}
                k == CHOOSE k \in ks : \A j \in ks : j <= k
            IN  IF ks = {} THEN NoCtl
                ELSE IF has(p.path[k], HDA_OUTPUT) THEN AmpVal(p.path[k], 0, HDA_OUTPUT)
                ELSE AmpVal(p.path[k], p.idx[k], HDA_INPUT)
    IN  [store EXCEPT ![i].ctls.vol = Pick(NidHasVolume),
                      ![i].ctls.mute = Pick(NidHasMute)]

\* new_analog_input(): the loopback path from an input pin into the mixer,
\* with the mixer's input amp as its ctls, switched on
NewAnalogInput(store, pin, mix) ==
    LET r == AddNewPath(store, pin, mix, 0)
        k == Len(r.store[r.ret].path)
        val == AmpVal(mix, r.store[r.ret].idx[k], HDA_INPUT)
    IN  IF ~NidHasVolume(mix, HDA_INPUT) /\ ~NidHasMute(mix, HDA_INPUT)
        THEN [store |-> store, ret |-> 0]
        ELSE IF r.ret = 0 THEN r
        ELSE [store |-> [r.store EXCEPT
                   ![r.ret].ctls.vol = IF NidHasVolume(mix, HDA_INPUT) THEN val ELSE @,
                   ![r.ret].ctls.mute = IF NidHasMute(mix, HDA_INPUT) THEN val ELSE @,
                   ![r.ret].active = TRUE],
              ret |-> r.ret]

\* snd_array_free(&spec->paths)
FreePaths == <<>>
=============================================================================
