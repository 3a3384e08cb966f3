------------------------------ MODULE HdaGraph ------------------------------
(***************************************************************************)
(* The Widget Graph Accessor of the HD-Audio generic parser: read-only     *)
(* queries over a codec's widget graph (sound/pci/hda/hda_generic.c).      *)
(* The graph is a constant of every model: a codec does not rewire itself. *)
(* Node ids are small integers so that the parser's "anchor" convention    *)
(* (a negative anchor names a widget to avoid) can be modelled as written. *)
(***************************************************************************)
EXTENDS Integers, Sequences, FiniteSets

CONSTANTS
    Nodes,      \* the codec's widget ids (hda_nid_t, never 0)
    WType,      \* [Nodes -> WidgetTypes], get_wcaps_type(get_wcaps(nid))
    Conn,       \* [Nodes -> Seq(Nodes)], snd_hda_get_conn_list(nid)
    InAmp,      \* [Nodes -> SUBSET AmpBits], input-amp capabilities
    OutAmp,     \* [Nodes -> SUBSET AmpBits], output-amp capabilities
    ConnDepth   \* recursion bound of snd_hda_get_conn_index()

WidgetTypes == {"AudOut", "AudIn", "AudMix", "AudSel", "Pin"}
AmpBits == {"mute", "vol"}

\* HDA_INPUT and HDA_OUTPUT as the codec headers number them.
HDA_INPUT == 0
HDA_OUTPUT == 1

ASSUME GraphOK ==
    /\ Nodes \subseteq (Nat \ {0})
    /\ WType \in [Nodes -> WidgetTypes]
    /\ \A n \in Nodes : \A i \in DOMAIN Conn[n] : Conn[n][i] \in Nodes
    /\ InAmp \in [Nodes -> SUBSET AmpBits]
    /\ OutAmp \in [Nodes -> SUBSET AmpBits]
    /\ ConnDepth \in Nat

\* hda_nid_t is an unsigned 16-bit value: a cast of a negative int wraps.
U16(x) == x % 65536

\* The widget capability bits AC_WCAP_IN_AMP / AC_WCAP_OUT_AMP; a widget is
\* taken to have the amp bit exactly when the amp has some capability.
HasInAmpCap(n) == InAmp[n] # {}
HasOutAmpCap(n) == OutAmp[n] # {}

\* check_amp_caps(): the widget has the amp bit for dir and the amp caps
\* have the queried bit; nid 0 has nothing.
CheckAmpCaps(n, dir, bit) ==
    /\ n # 0
    /\ IF dir = HDA_INPUT THEN bit \in InAmp[n] ELSE bit \in OutAmp[n]

NidHasMute(n, dir) == CheckAmpCaps(n, dir, "mute")
NidHasVolume(n, dir) == CheckAmpCaps(n, dir, "vol")

(***************************************************************************)
(* snd_hda_get_conn_index(codec, mux, nid, recursive): the index in mux's  *)
(* connection list through which nid is reached, or -1.  The recursive     *)
(* search does not descend into pins or output converters and gives up     *)
(* beyond ConnDepth levels.  It lives in hda_codec.c, outside src/.        *)
(***************************************************************************)
RECURSIVE GetConnIndex(_, _, _)
GetConnIndex(mux, nid, level) ==
    LET c == Conn[mux]
        direct == {i \in DOMAIN c : c[i] = nid}
        via == {i \in DOMAIN c : /\ WType[c[i]] \notin {"Pin", "AudOut"}
                                  /\ level > 0 /\ level <= ConnDepth
                                  /\ GetConnIndex(c[i], nid, level + 1) >= 0}
    IN  IF direct # {} THEN (CHOOSE i \in direct : \A j \in direct : i <= j) - 1
        ELSE IF via # {} THEN (CHOOSE i \in via : \A j \in via : i <= j) - 1
        ELSE -1

\* is_reachable_path(): can from_nid feed to_nid through the graph?
IsReachablePath(from, to) ==
    /\ from # 0 /\ to # 0
    /\ GetConnIndex(to, from, 1) >= 0
=============================================================================
