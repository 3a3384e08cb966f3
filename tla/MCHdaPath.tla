------------------------------ MODULE MCHdaPath ------------------------------
(***************************************************************************)
(* Model of the path store under every sequence of the calls that change   *)
(* it: snd_hda_add_new_path() with any (from, to, anchor) request of a     *)
(* small set, invalidate_nid_path() of any handle, and snd_array_free() of *)
(* the whole store.  The codec graph below has two DACs, an analog mixer   *)
(* (11) that both DACs and the mic pin feed, output selectors in front of  *)
(* the two output pins, and an input selector in front of the ADC, reached *)
(* directly from the mic pin or from the mixer through a loopback          *)
(* selector (15), a walk one widget longer than the depth bound allows.    *)
(***************************************************************************)
EXTENDS HdaPath, TLC

VARIABLES
    store,  \* spec->paths: the sequence of nid_path records
    last    \* the last add_new_path() request and its result (for properties)

vars == <<store, last>>

MCNodes == {2, 3, 8, 11, 12, 13, 14, 15, 20, 21, 24}
MCWType == [n \in MCNodes |->
              CASE n \in {2, 3}              -> "AudOut"
                [] n = 8                     -> "AudIn"
                [] n = 11                    -> "AudMix"
                [] n \in {12, 13, 14, 15}    -> "AudSel"
                [] n \in {20, 21, 24}        -> "Pin"]
MCConn == [n \in MCNodes |->
              CASE n = 8  -> <<14>>
                [] n = 11 -> <<2, 3, 24>>
                [] n = 12 -> <<2, 11>>
                [] n = 13 -> <<3, 11>>
                [] n = 14 -> <<24, 15>>
                [] n = 15 -> <<11>>
                [] n = 20 -> <<11, 12>>
                [] n = 21 -> <<13, 12>>
                [] OTHER  -> <<>>]
MCNoAmp == [n \in MCNodes |-> {}]
MCConnDepth == 10
MCMaxDepth == 3

\* the requests the model issues: a DAC, the mic pin or 0 (any free DAC) as
\* source; an output pin or the ADC as sink; no anchor, a positive anchor
\* (through the mixer or a selector) or the negative one the DAC assignment
\* uses (-mixer_nid)
From == {0, 2, 3, 24}
To == {20, 21, 8}
Anchor == {0, 11, 12, -11}
MaxPaths == 2       \* bound on spec->paths.used

NoRequest == [add |-> FALSE, from |-> 0, to |-> 0, anchor |-> 0, ret |-> 0]

Init ==
    /\ store = <<>>
    /\ last = NoRequest

\* snd_hda_add_new_path(codec, from, to, anchor)
AddPath(f, t, a) ==
    LET r == AddNewPath(store, f, t, a)
    IN  /\ Len(r.store) <= MaxPaths
        /\ store' = r.store
        /\ last' = [add |-> TRUE, from |-> f, to |-> t, anchor |-> a, ret |-> r.ret]

\* invalidate_nid_path(codec, idx)
Invalidate(i) ==
    /\ store' = InvalidateNidPath(store, i)
    /\ last' = NoRequest

\* snd_array_free(&spec->paths), as parse_output_paths() and
\* snd_hda_gen_spec_free() do
Free ==
    /\ store # <<>>
    /\ store' = FreePaths
    /\ last' = NoRequest

Next ==
    \/ \E f \in From, t \in To, a \in Anchor : AddPath(f, t, a)
    \/ \E i \in 1..Len(store) : Invalidate(i)
    \/ Free

Spec == Init /\ [][Next]_vars

-----------------------------------------------------------------------------
(* Reference definitions, written from the graph alone.                    *)

Elems(s) == {s[k] : k \in DOMAIN s}
FirstIdx(s, x) == CHOOSE k \in DOMAIN s : s[k] = x /\ \A j \in 1..k : s[j] = x => j = k

\* every walk ending at n with 2..k widgets whose interior widgets are
\* mixers or selectors
RECURSIVE WalksTo(_, _)
WalksTo(n, k) ==
    IF k < 2 THEN {}
    ELSE {<<m, n>> : m \in Elems(Conn[n])}
         \cup UNION {{w \o <<n>> : w \in WalksTo(m, k - 1)} :
                     m \in {x \in Elems(Conn[n]) : WType[x] \in {"AudMix", "AudSel"}}}

\* the walks a request may be answered with by a fresh parse: from the
\* source (or an unclaimed DAC for source 0), through the anchor or around
\* its negation after the first widget, at most MaxDepth + 1 widgets
ValidWalks(st, f, t, a) ==
    {w \in WalksTo(t, MaxDepth + 1) :
        /\ IF f # 0 THEN w[1] = f
           ELSE WType[w[1]] = "AudOut" /\ \A i \in DOMAIN st : PathHead(st[i]) # w[1]
        /\ a > 0 => \E k \in 2..Len(w) : w[k] = a
        /\ a < 0 => \A k \in 2..Len(w) : w[k] # -a}

\* a stored record answers a request when its ends match (0 being a
\* wildcard) and it passes through, or avoids, the anchor
Fits(p, f, t, a) ==
    /\ p.path # <<>>
    /\ f = 0 \/ p.path[1] = f
    /\ p.path[Len(p.path)] = t
    /\ a > 0 => a \in Elems(p.path)
    /\ a < 0 => -a \notin Elems(p.path)

-----------------------------------------------------------------------------
TypeOK ==
    /\ store \in Seq([path : Seq(Nodes), idx : Seq(Nat), multi : Seq(BOOLEAN),
                      ctls : [CtlTypes -> [nid : Nat, dir : Nat, idx : Nat]],
                      active : BOOLEAN])
    /\ Len(store) <= MaxPaths
    /\ last \in [add : BOOLEAN, from : From \cup {0}, to : To \cup {0}, anchor : Anchor,
                 ret : 0..MaxPaths]

(* Every record in the store that __parse_nid_path() filled is a walk of   *)
(* the graph: each widget is in the connection list of the next, idx[k] is *)
(* the position of path[k-1] in path[k]'s list, multi[k] is set exactly    *)
(* for a non-mixer with several inputs, the interior widgets are mixers or *)
(* selectors, and the path has at most MaxDepth + 1 widgets.               *)
StoredPathsAreWalks ==
    \A i \in DOMAIN store :
        LET p == store[i]  n == Len(p.path) IN
        n > 0 =>
          /\ 2 <= n /\ n <= MaxDepth + 1
          /\ Len(p.idx) = n /\ Len(p.multi) = n
          /\ p.idx[1] = 0 /\ ~p.multi[1]
          /\ \A k \in 2..n :
               LET c == Conn[p.path[k]] IN
               /\ p.path[k - 1] \in Elems(c)
               /\ p.idx[k] = FirstIdx(c, p.path[k - 1]) - 1
               /\ p.multi[k] = (Len(c) > 1 /\ WType[p.path[k]] # "AudMix")
          /\ \A k \in 2..(n - 1) : WType[p.path[k]] \in {"AudMix", "AudSel"}

\* a step that was a call of snd_hda_add_new_path()
AddStep == last'.add

(* snd_hda_add_new_path() with no anchor or a positive one returns NULL   *)
(* exactly when no stored path answers the request and no walk within the *)
(* depth bound does; a path it returns answers the request; a path it     *)
(* appends is one of the valid walks, and it appends only on a cache miss.*)
AddNewPathSoundAndComplete ==
    [][AddStep /\ last'.anchor >= 0 =>
        LET f == last'.from  t == last'.to  a == last'.anchor  r == last'.ret
            cached == \E i \in DOMAIN store : Fits(store[i], f, t, a)
        IN  /\ (r = 0) <=> (~cached /\ ValidWalks(store, f, t, a) = {})
            /\ r # 0 => r \in DOMAIN store' /\ Fits(store'[r], f, t, a)
            /\ Len(store') > Len(store) =>
                  ~cached /\ store'[r].path \in ValidWalks(store, f, t, a)]_vars

(* The header comment of snd_hda_parse_nid_path(): with a negative anchor, *)
(* paths through the widget -anchor are excluded.  A path that            *)
(* snd_hda_add_new_path() returns for such a request avoids that widget.  *)
ExcludedAnchorRespected ==
    [][AddStep /\ last'.anchor < 0 /\ last'.ret # 0 =>
        -last'.anchor \notin Elems(store'[last'.ret].path)]_vars
=============================================================================
