------------------------------ MODULE MediaScan ------------------------------
(***************************************************************************)
(* What becomes of the profile of a file: it is guessed when the file is   *)
(* added, its id is what the data base keeps, and a later process looks    *)
(* the id up (profiles.c, ffmpeg_profiler/, db_sqlite.c:128-144).          *)
(***************************************************************************)
EXTENDS MediaProfiles

VARIABLES
  file,      \* the name of the file
  guessed,   \* the profile it is given
  restored   \* the one its id leads to

vars == <<file, guessed, restored>>

Unread == [read |-> FALSE]

Init == file \in DOMAIN Files /\ guessed = Unread /\ restored = Unread

Guess ==
  /\ guessed = Unread
  /\ guessed' = guess_media_profile(file)
  /\ UNCHANGED <<file, restored>>

Restore ==
  /\ guessed \notin {Unread, NULL, CRASH} /\ restored = Unread
  /\ restored' = dlna_get_media_profile(guessed.id)
  /\ UNCHANGED <<file, guessed>>

Next == Guess \/ Restore

Spec == Init /\ [][Next]_vars

-----------------------------------------------------------------------------
\* The ids that do not tell one profile: an LPCM profile's type is made from the stream, and AMR in 3GP and in MP4, and
\* HE AAC v2 in ADTS and in MP4, share their ids (audio_lpcm.c:29-39, audio_amr.c:30-41, audio_aac.c:168-214).
Ambiguous == {"LPCM", "LPCM_low", "AMR_3GPP"} \cup {s[1] : s \in Range(AacV2Streams)}

\* A file that is offered again after a restart is announced as before: the id that was stored leads to the profile
\* that was guessed (db_sqlite.c:128-144, ffmpeg_profiler/profiles.c:346-473).
KeepsItsProfile == restored # Unread => restored = guessed \/ guessed.id \in Ambiguous

\* Which profile a file gets does not depend on the order in which the application registers the families: no file is
\* claimed by two of them (ffmpeg_profiler/profiles.c:67-158, 406-473).
ClaimedOnce ==
  LET ctx == Files[file].media
      codecs == av_profile_get_codecs(ctx)
      claims == {f \in Range(ffmpeg_profiler_register_all_media_profiles(<<>>)) :
                   match_file_extension(ctx.ext, f.extensions) /\ Probe(f, ctx, codecs) # NULL}
  IN  guessed = Unread /\ codecs # NULL => Cardinality(claims) <= 1
=============================================================================
