------------------------------- MODULE GpsNmea -------------------------------
(***************************************************************************)
(* The NMEA sentences the GPS engine makes up from the modem's reports     *)
(* when the modem does not send them (loc_eng_nmea.cpp): what fields each  *)
(* sentence has, and how the satellites are divided among sentences.  A    *)
(* field is named after what it shows, "" when it is empty; numbers are    *)
(* not formatted.  A sentence always fits its 200 bytes.                   *)
(*                                                                         *)
(* A satellite report is a sequence of [kind, id, used]; a position is the *)
(* set of the things it has, with the positioning mode.                    *)
(***************************************************************************)
EXTENDS Integers, Sequences, FiniteSets, SequencesExt

GLONASS_SV_ID_OFFSET == 64

Show(p, flag, fields) == IF flag \in p.has THEN fields ELSE [i \in DOMAIN fields |-> ""]

\* The fields in which the satellites used in the fix are told: the first
\* twelve, in the order of their numbers.
UsedList(mask, offset) ==
  LET ids == SelectSeq([i \in 1..32 |-> i], LAMBDA i : i \in mask) IN
  [i \in 1..12 |-> IF i <= Len(ids) THEN ids[i] + offset ELSE 0]

FixType(mask) == IF mask = {} THEN "1" ELSE IF Cardinality(mask) <= 3 THEN "2" ELSE "3"

\* The dilution of precision comes with the position, or was cached from
\* the satellite report.
Dop(p, cached) == IF "DOP" \in p.has \/ cached THEN <<"pdop", "hdop", "vdop">> ELSE <<"", "", "">>

GPGSA(mask, p, cached) ==
  [name |-> "GPGSA", fields |-> <<"A", FixType(mask)>> \o Dop(p, cached), svs |-> UsedList(mask, 0)]

GNGSA(mask, p, cached) ==
  [name |-> "GNGSA", fields |-> <<"A", FixType(mask)>> \o Dop(p, cached),
   svs |-> UsedList(mask, GLONASS_SV_ID_OFFSET)]

Mode(p) == IF "LAT_LONG" \notin p.has THEN "N" ELSE IF p.mode = "STANDALONE" THEN "A" ELSE "D"

\* The magnetic track is the true one: the deviation is subtracted in a
\* variable of an inner scope.
GPVTG(p) ==
  LET bearing == Show(p, "BEARING", <<"bearing">>)
      speed == Show(p, "SPEED", <<"knots", "km/h">>) IN
  [name |-> "GPVTG", svs |-> << >>,
   fields |-> bearing \o <<"T">> \o bearing \o <<"M", speed[1], "N", speed[2], "K", Mode(p)>>]

Position(p) == Show(p, "LAT_LONG", <<"latitude", "N/S", "longitude", "E/W">>)

\* The status is "A", with a position or without.
GPRMC(p) ==
  [name |-> "GPRMC", svs |-> << >>,
   fields |-> <<"time", "A">> \o Position(p) \o Show(p, "SPEED", <<"knots">>)
              \o Show(p, "BEARING", <<"bearing">>) \o <<"date">>
              \o Show(p, "MAG_DEV", <<"variation", "E/W">>) \o <<Mode(p)>>]

Quality(p) == IF "LAT_LONG" \notin p.has THEN "0" ELSE IF p.mode = "STANDALONE" THEN "1" ELSE "2"

GPGGA(p, cached) ==
  [name |-> "GPGGA", svs |-> << >>,
   fields |-> <<"time">> \o Position(p) \o <<Quality(p), "count", Dop(p, cached)[2]>>
              \o Show(p, "ALTITUDE_MSL", <<"altitude", "M">>)
              \o (IF {"ALTITUDE", "ALTITUDE_MSL"} \subseteq p.has
                  THEN <<"separation", "M">> ELSE <<"", "">>) \o <<"", "">>]

\* The sentences of a report that is not to be shown.
NoFixSentences ==
  << [name |-> "GPGSA", fields |-> <<"A", "1", "", "", "">>, svs |-> [i \in 1..12 |-> 0]],
     [name |-> "GNGSA", fields |-> <<"A", "1", "", "", "">>, svs |-> [i \in 1..12 |-> 0]],
     [name |-> "GPVTG", fields |-> <<"", "T", "", "M", "", "N", "", "K", "N">>, svs |-> << >>],
     [name |-> "GPRMC", fields |-> <<"", "V", "", "", "", "", "", "", "", "", "", "N">>, svs |-> << >>],
     [name |-> "GPGGA", fields |-> <<"", "", "", "", "", "0", "", "", "", "", "", "", "", "">>,
      svs |-> << >>] >>

\* nmea = [gps, glo, dop]: what is cached for the next position report.
\* The masks are cleared by a report that is shown, the dilution by any.
loc_eng_nmea_generate_pos(nmea, p, generate_nmea) ==
  [sentences |-> IF generate_nmea
                 THEN <<GPGSA(nmea.gps, p, nmea.dop), GNGSA(nmea.glo, p, nmea.dop), GPVTG(p), GPRMC(p),
                        GPGGA(p, nmea.dop)>>
                 ELSE NoFixSentences,
   nmea |-> [gps |-> IF generate_nmea THEN {} ELSE nmea.gps,
             glo |-> IF generate_nmea THEN {} ELSE nmea.glo, dop |-> FALSE]]

\* Four satellites of the constellation to a sentence, each walk over the
\* report going on where the last one stopped.
RECURSIVE Walk(_, _, _, _)
Walk(svs, kind, at, taken) ==
  IF at > Len(svs) \/ Len(taken) = 4 THEN <<taken, at>>
  ELSE Walk(svs, kind, at + 1, IF svs[at].kind = kind THEN Append(taken, svs[at].id) ELSE taken)

RECURSIVE GSVFrom(_, _, _, _, _)
GSVFrom(svs, kind, number, count, at) ==
  IF number > count THEN << >>
  ELSE LET walked == Walk(svs, kind, at, << >>) IN
       <<[name |-> kind, fields |-> <<count, number>>, svs |-> walked[1]]>>
         \o GSVFrom(svs, kind, number + 1, count, walked[2])

GPGSV(svs) ==
  LET n == Len(SelectSeq(svs, LAMBDA sv : sv.kind = "GPS")) IN
  IF n = 0 THEN <<[name |-> "GPS", fields |-> <<1, 1>>, svs |-> << >>]>>
  ELSE GSVFrom(svs, "GPS", 1, n \div 4 + (IF n % 4 # 0 THEN 1 ELSE 0), 1)

GLGSV(svs) ==
  LET n == Len(SelectSeq(svs, LAMBDA sv : sv.kind = "GLONASS")) IN
  IF n = 0 THEN <<[name |-> "GLONASS", fields |-> <<1, 1>>, svs |-> << >>]>>
  ELSE GSVFrom(svs, "GLONASS", 1, n \div 4 + (IF n % 4 # 0 THEN 1 ELSE 0), 1)

UsedMask(svs, kind) ==
  {svs[i].id : i \in {j \in DOMAIN svs : svs[j].kind = kind /\ svs[j].used}}

loc_eng_nmea_generate_sv(svs, p) ==
  [sentences |-> GPGSV(svs) \o GLGSV(svs),
   nmea |-> [gps |-> UsedMask(svs, "GPS"), glo |-> UsedMask(svs, "GLONASS"), dop |-> "DOP" \in p.has]]

------------------------------------------------------------------------------
Flags == {"LAT_LONG", "SPEED", "BEARING", "MAG_DEV", "DOP", "ALTITUDE", "ALTITUDE_MSL"}
Positions == [has : SUBSET Flags, mode : {"STANDALONE", "MS_BASED"}]
SvReports(n) ==
  LET kinds == UNION {[1..k -> {"GPS", "GLONASS", "OTHER"}] : k \in 0..n} IN
  {[i \in DOMAIN f |-> [kind |-> f[i], id |-> i, used |-> i % 3 # 0]] : f \in kinds}

\* A sentence of a kind has the same fields whatever the position has, and
\* with a fix or without: a reader may count the commas.
FieldsFixed ==
  \A p \in Positions, nmea \in [gps : {{}, 1..14}, glo : {{1, 2}}, dop : BOOLEAN] :
    LET with == loc_eng_nmea_generate_pos(nmea, p, TRUE).sentences IN
    \A i \in 1..5 : /\ with[i].name = NoFixSentences[i].name
                    /\ Len(with[i].fields) = Len(NoFixSentences[i].fields)
                    /\ Len(with[i].svs) = Len(NoFixSentences[i].svs)

\* The GSV sentences of a report list every satellite of the constellation
\* once and in the order of the report, at most four to a sentence, and
\* only the last has fewer; the GSA sentences of the position report that
\* follows list the used ones of them.
SatellitesListed(n) ==
  \A svs \in SvReports(n) :
    LET report == loc_eng_nmea_generate_sv(svs, [has |-> {}, mode |-> "STANDALONE"])
        all(kind) == SelectSeq(report.sentences, LAMBDA s : s.name = kind)
        ids(kind) == {sv.id : sv \in {x \in ToSet(svs) : x.kind = kind}}
        position == loc_eng_nmea_generate_pos(report.nmea, [has |-> {}, mode |-> "STANDALONE"], TRUE) IN
    /\ \A kind \in {"GPS", "GLONASS"} :
         /\ FlattenSeq([i \in DOMAIN all(kind) |-> all(kind)[i].svs]) = SelectSeq([i \in 1..Len(svs) |-> i], LAMBDA i : i \in ids(kind))
         /\ \A i \in DOMAIN all(kind) : /\ all(kind)[i].fields = <<Len(all(kind)), i>>
                                        /\ Len(all(kind)[i].svs) < 4 => i = Len(all(kind))
                                        /\ Len(all(kind)[i].svs) <= 4
    /\ ToSet(position.sentences[1].svs) \ {0} = {id \in ids("GPS") : id % 3 # 0}
    /\ ToSet(position.sentences[2].svs) \ {0}
         = {id + GLONASS_SV_ID_OFFSET : id \in {i \in ids("GLONASS") : i % 3 # 0}}
    /\ position.nmea = [gps |-> {}, glo |-> {}, dop |-> FALSE]

NmeaCorrect(n) == FieldsFixed /\ SatellitesListed(n)

==============================================================================
