------------------------------ MODULE Releases ------------------------------
(* What the updater makes of GitHub's list of releases: the first public one  *)
(* with a plugin file in it, and whether that one is offered.                 *)
(* (core/application/updater.py, the functions below the class)               *)
EXTENDS Integers, Sequences, SequencesExt

CONSTANTS
    Versions,   \* the tags of the releases, and the version of the code
    Parts,      \* Parts[v]: the numbers of v, empty when v is no dotted number
    NoVersion   \* the empty string in the settings

ASSUME ReleasesAssumption ==
    /\ NoVersion \notin Versions
    /\ Parts \in [Versions -> Seq(Nat)]

(* Tuples compare as Python compares them: a proper prefix is the smaller one. *)
IsNewer(current, latest) ==
    LET a == Parts[current]
        b == Parts[latest]
    IN  /\ a # <<>>
        /\ \E i \in 1..Len(b) :
              /\ \A j \in 1..(i - 1) : j <= Len(a) /\ a[j] = b[j]
              /\ i = Len(a) + 1 \/ (i <= Len(a) /\ a[i] < b[i])

(* A release of the list: its tag, whether it is neither a draft nor a         *)
(* prerelease, and the plugin file among its assets (none, one with the exact  *)
(* name, one that only starts like it).                                       *)
Release == [version: Versions, public: BOOLEAN, asset: BOOLEAN]

FirstPublic(listing) == SelectInSeq(listing, LAMBDA r : r.public)

(* The version fetch_latest_release returns, NoVersion when it raises.         *)
LatestRelease(listing) ==
    LET i == FirstPublic(listing)
    IN  IF i # 0 /\ listing[i].asset THEN listing[i].version ELSE NoVersion

(* Mutant: the manual check disregards what was skipped.                      *)
OfferSkipped(current, config, version, ignoreNotified) ==
    /\ version # config.installed
    /\ ignoreNotified \/ version \notin {config.notified, config.skipped}
    /\ IsNewer(current, version)

(* config: the updater's section of the settings.                             *)
ShouldOffer(current, config, version, ignoreNotified) ==
    /\ version \notin {config.installed, config.skipped}
    /\ ignoreNotified \/ version # config.notified
    /\ \/ IsNewer(current, version)
       \/ /\ Parts[current] = <<>> \/ Parts[version] = <<>>
          /\ version # current
=============================================================================
