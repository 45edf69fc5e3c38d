-------------------------- MODULE MigrationsProofs --------------------------
(***************************************************************************)
(* Proofs about Migrations: rows keep to the columns of their tables, and  *)
(* whatever is run and aborted, the schema is that of the revision, no     *)
(* word and no value is lost but in columns that a downgrade has dropped,  *)
(* and no command fails but on a text that is too long.                    *)
(***************************************************************************)
EXTENDS Migrations, FiniteSetTheorems, SequenceTheorems, TLAPS

\* What every table keeps of columns that no revision touches.
CompanyNames == {"id", "name", "legal_form", "legal_address", "business_area", "email",
                 "created_at"}
ProfileNames == {"id", "user_id", "position", "rate_type", "rate_amount", "currency",
                 "created_at"}

LastingOfCompany == Cols("company", CompanyNames, FALSE) \cup Cols("company", {"logo"}, TRUE)

LastingOfProfile ==
    Cols("employee_profile", ProfileNames, FALSE)
      \cup Cols("employee_profile", {"updated_at"}, TRUE)

CodeColumns == Cols("qr_session", {"id", "token", "company_id", "created_at", "expires_at",
                                   "is_active"}, FALSE)
UserColumns == Cols("user", {"id", "email", "password_hash", "role", "company_id",
                             "is_active", "created_at"}, FALSE)
AdjustmentColumns == Cols("adjustment", {"id", "employee_id", "type", "amount", "comment",
                                         "date", "created_at"}, FALSE)
EntryColumns == Cols("time_entry", {"id", "employee_id", "date", "check_in",
                                    "created_at"}, FALSE)
CheckOut == Cols("time_entry", {"check_out"}, TRUE)

Untouched == CodeColumns \cup UserColumns \cup AdjustmentColumns \cup EntryColumns \cup CheckOut

Lasting == LastingOfCompany \cup LastingOfProfile \cup Untouched

-----------------------------------------------------------------------------
(***************************************************************************)
(* Columns.                                                                *)
(***************************************************************************)
\* Every column belongs to one group: 0 what lasts, else what the revisions add and
\* drop together.
Group(c) ==
    CASE c[1] = "company" /\ c[2] = "contact_phone" -> 1
      [] c[1] = "company" /\ c[2] = "contact_name" -> 2
      [] c[1] = "company" /\ c[2] \in {"inn", "bik"} -> 3
      [] c[1] = "employee_profile" /\ c[2] \in {"first_name", "last_name", "patronymic"} -> 4
      [] c[1] = "employee_profile" /\ c[2] = "full_name" -> 5
      [] c[1] = "employee_profile" /\ c[2] = "phone" -> 6
      [] c[1] = "employee_profile" /\ c[2] = "avatar_key" -> 7
      [] c[1] = "api_session" -> 8
      [] c[1] = "schedule" /\ c[2] \in {"rate_type", "rate_amount"} -> 9
      [] c[1] = "schedule" /\ c[2] = "currency" -> 10
      [] c[1] = "schedule" /\ c[2] \notin {"rate_type", "rate_amount", "currency"} -> 11
      [] OTHER -> 0

\* A column of a list is of its table, with one of its names.
LEMMA ColsAre == \A t, S, n : \A c \in Cols(t, S, n) : c[1] = t /\ c[2] \in S
  BY DEF Cols

\* The groups that the revisions name are apart.
LEMMA Groups ==
    /\ \A c \in ContactPhone : Group(c) = 1
    /\ \A c \in ContactName : Group(c) = 2
    /\ \A c \in CompanyNumbers : Group(c) = 3
    /\ \A c \in NameParts : Group(c) = 4
    /\ \A c \in FullName : Group(c) = 5
    /\ \A c \in Phone : Group(c) = 6
    /\ \A c \in AvatarKey : Group(c) = 7
    /\ \A c \in ApiSession : Group(c) = 8
    /\ \A c \in RateOfDay : Group(c) = 9
    /\ \A c \in CurrencyOfDay : Group(c) = 10
    /\ \A c \in ScheduleTable : Group(c) = 11
  <1>1. \A c \in ContactPhone : Group(c) = 1
    BY DEF Cols, Group, ContactPhone
  <1>2. \A c \in ContactName : Group(c) = 2
    BY DEF Cols, Group, ContactName
  <1>3. \A c \in CompanyNumbers : Group(c) = 3
    <2>1. \A c \in CompanyNumbers : c[1] = "company" /\ c[2] \in {"inn", "bik"}
      BY ColsAre, Zenon DEF CompanyNumbers
    <2> QED BY <2>1 DEF Group
  <1>4. \A c \in NameParts : Group(c) = 4
    <2>1. \A c \in NameParts :
            /\ c[1] = "employee_profile"
            /\ c[2] \in {"first_name", "last_name"} \/ c[2] \in {"patronymic"}
      BY ColsAre, Zenon DEF NameParts
    <2> QED BY <2>1 DEF Group
  <1>5. \A c \in FullName : Group(c) = 5
    BY DEF Cols, Group, FullName
  <1>6. \A c \in Phone : Group(c) = 6
    BY DEF Cols, Group, Phone
  <1>7. \A c \in AvatarKey : Group(c) = 7
    BY DEF Cols, Group, AvatarKey
  <1>8. \A c \in ApiSession : Group(c) = 8
    <2>1. \A c \in ApiSession : c[1] = "api_session"
      BY ColsAre, Zenon DEF ApiSession
    <2> QED BY <2>1 DEF Group
  <1>9. \A c \in RateOfDay : Group(c) = 9
    <2>1. \A c \in RateOfDay : c[1] = "schedule" /\ c[2] \in {"rate_type", "rate_amount"}
      BY ColsAre, Zenon DEF RateOfDay
    <2> QED BY <2>1 DEF Group
  <1>10. \A c \in CurrencyOfDay : Group(c) = 10
    BY DEF Cols, Group, CurrencyOfDay
  <1>11. \A c \in ScheduleTable : Group(c) = 11
    <2>1. \A c \in ScheduleTable : c[1] = "schedule" 
                /\ c[2] \in {"id", "employee_id", "date", "start_time", "end_time"}
      BY ColsAre, Zenon DEF ScheduleTable
    <2> QED BY <2>1 DEF Group
  <1> QED
    BY <1>1, <1>2, <1>3, <1>4, <1>5, <1>6, <1>7, <1>8, <1>9, <1>10, <1>11

\* Of these tables only the columns that no revision touches are listed.
LEMMA UntouchedIs ==
    \A c \in Untouched :
        c[1] = "qr_session" \/ c[1] = "user" \/ c[1] = "adjustment" \/ c[1] = "time_entry"
  <1>1. \A t, S, n : \A c \in Cols(t, S, n) : c[1] = t
    BY ColsAre
  <1>2. \A c \in CodeColumns : c[1] = "qr_session"
    BY <1>1, Zenon DEF CodeColumns
  <1>3. \A c \in UserColumns : c[1] = "user"
    BY <1>1, Zenon DEF UserColumns
  <1>4. \A c \in AdjustmentColumns : c[1] = "adjustment"
    BY <1>1, Zenon DEF AdjustmentColumns
  <1>5. \A c \in EntryColumns \cup CheckOut : c[1] = "time_entry"
    BY <1>1, Zenon DEF EntryColumns, CheckOut
  <1> QED
    BY <1>2, <1>3, <1>4, <1>5 DEF Untouched

\* What lasts is of none of them.
LEMMA LastingIsApart == \A c \in Lasting : Group(c) = 0
  <1>1. \A c \in LastingOfCompany :
          c[1] = "company" /\ (c[2] \in CompanyNames \/ c[2] \in {"logo"})
    BY ColsAre, Zenon DEF LastingOfCompany
  <1>2. \A c \in LastingOfProfile :
          c[1] = "employee_profile" /\ (c[2] \in ProfileNames \/ c[2] \in {"updated_at"})
    BY ColsAre, Zenon DEF LastingOfProfile
  <1> QED
    BY <1>1, <1>2, UntouchedIs DEF Lasting, Group, CompanyNames, ProfileNames

\* The initial revision has the lasting columns and three groups that go later.
LEMMA InitialIs == Initial = Lasting \cup ContactPhone \cup NameParts \cup ApiSession
  <1> DEFINE Logo == Cols("company", {"logo"}, TRUE)
             Names1 == Cols("employee_profile", {"first_name", "last_name"}, FALSE)
             Names2 == Cols("employee_profile", {"patronymic"}, TRUE)
             Updated == Cols("employee_profile", {"updated_at"}, TRUE)
  <1>1. {"id", "name", "legal_form", "legal_address", "contact_phone", "business_area",
         "email", "created_at"} = CompanyNames \cup {"contact_phone"}
    BY DEF CompanyNames
  <1>2. {"id", "user_id", "first_name", "last_name", "position", "rate_type", "rate_amount",
         "currency", "created_at"} = ProfileNames \cup {"first_name", "last_name"}
    BY DEF ProfileNames
  <1>3. {"patronymic", "updated_at"} = {"patronymic"} \cup {"updated_at"}
    OBVIOUS
  <1>4. Initial =
          Cols("company", CompanyNames \cup {"contact_phone"}, FALSE) \cup Logo
            \cup CodeColumns \cup UserColumns \cup ApiSession
            \cup Cols("employee_profile", ProfileNames \cup {"first_name", "last_name"}, FALSE)
            \cup Cols("employee_profile", {"patronymic"} \cup {"updated_at"}, TRUE)
            \cup AdjustmentColumns \cup EntryColumns \cup CheckOut
    BY <1>1, <1>2, <1>3, Zenon
       DEF Initial, CodeColumns, UserColumns, AdjustmentColumns, EntryColumns, CheckOut
  <1>5. Cols("company", CompanyNames \cup {"contact_phone"}, FALSE) =
            Cols("company", CompanyNames, FALSE) \cup ContactPhone
    BY Zenon DEF Cols, ContactPhone
  <1>6. Cols("employee_profile", ProfileNames \cup {"first_name", "last_name"}, FALSE) =
            Cols("employee_profile", ProfileNames, FALSE) \cup Names1
    BY Zenon DEF Cols
  <1>7. Cols("employee_profile", {"patronymic"} \cup {"updated_at"}, TRUE) = Names2 \cup Updated
    BY Zenon DEF Cols
  <1>8. NameParts = Names1 \cup Names2
    BY Zenon DEF NameParts
  <1>9. /\ LastingOfCompany = Cols("company", CompanyNames, FALSE) \cup Logo
        /\ LastingOfProfile = Cols("employee_profile", ProfileNames, FALSE) \cup Updated
    BY Zenon DEF LastingOfCompany, LastingOfProfile
  <1> DEFINE C == Cols("company", CompanyNames, FALSE)
             P == Cols("employee_profile", ProfileNames, FALSE)
  <1>10. Initial = (C \cup ContactPhone) \cup Logo \cup CodeColumns \cup UserColumns
                     \cup ApiSession \cup (P \cup Names1) \cup (Names2 \cup Updated)
                     \cup AdjustmentColumns \cup EntryColumns \cup CheckOut
    BY <1>4, <1>5, <1>6, <1>7, Zenon
  <1>11. LastingOfCompany = C \cup Logo /\ LastingOfProfile = P \cup Updated
    BY <1>9, Zenon
  <1> HIDE DEF C, P, Logo, Names1, Names2, Updated
  <1> QED
    BY <1>8, <1>10, <1>11, SMT DEF Lasting, Untouched

\* What models.py declares are the lasting columns and what upgrades have brought.
LEMMA ModelsAre ==
    Models = Lasting \cup ContactName \cup CompanyNumbers \cup FullName \cup Phone
               \cup AvatarKey \cup ScheduleTable \cup RateOfDay \cup CurrencyOfDay
  <1> DEFINE D == {"id", "employee_id", "date", "start_time", "end_time"}
             Logo == Cols("company", {"logo"}, TRUE)
             Updated == Cols("employee_profile", {"updated_at"}, TRUE)
  <1>1. /\ {"id", "name", "legal_form", "legal_address", "contact_name", "business_area",
            "email", "created_at"} = CompanyNames \cup {"contact_name"}
        /\ {"logo", "inn", "bik"} = {"logo"} \cup {"inn", "bik"}
    BY DEF CompanyNames
  <1>2. /\ {"id", "user_id", "full_name", "position", "rate_type", "rate_amount",
            "currency", "created_at"} = ProfileNames \cup {"full_name"}
        /\ {"phone", "avatar_key", "updated_at"} =
              {"phone"} \cup {"avatar_key"} \cup {"updated_at"}
    BY DEF ProfileNames
  <1>3. {"id", "employee_id", "date", "start_time", "end_time", "rate_type", "rate_amount",
         "currency"} = D \cup {"rate_type", "rate_amount"} \cup {"currency"}
    OBVIOUS
  <1>4. Models =
          Cols("company", CompanyNames \cup {"contact_name"}, FALSE)
            \cup Cols("company", {"logo"} \cup {"inn", "bik"}, TRUE) \cup UserColumns
            \cup Cols("employee_profile", ProfileNames \cup {"full_name"}, FALSE)
            \cup Cols("employee_profile", {"phone"} \cup {"avatar_key"} \cup {"updated_at"}, TRUE)
            \cup Cols("schedule", D \cup {"rate_type", "rate_amount"} \cup {"currency"}, FALSE)
            \cup AdjustmentColumns \cup CodeColumns \cup EntryColumns \cup CheckOut
    BY <1>1, <1>2, <1>3, Zenon
       DEF Models, CodeColumns, UserColumns, AdjustmentColumns, EntryColumns, CheckOut
  <1>5. ScheduleTable = Cols("schedule", D, FALSE)
    BY DEF ScheduleTable
  <1> HIDE DEF D
  <1>6. Cols("company", CompanyNames \cup {"contact_name"}, FALSE) =
            Cols("company", CompanyNames, FALSE) \cup ContactName
    BY Zenon DEF Cols, ContactName
  <1>7. Cols("company", {"logo"} \cup {"inn", "bik"}, TRUE) = Logo \cup CompanyNumbers
    BY Zenon DEF Cols, CompanyNumbers
  <1>8. Cols("employee_profile", ProfileNames \cup {"full_name"}, FALSE) =
            Cols("employee_profile", ProfileNames, FALSE) \cup FullName
    BY Zenon DEF Cols, FullName
  <1>9. Cols("employee_profile", {"phone"} \cup {"avatar_key"} \cup {"updated_at"}, TRUE) =
            Phone \cup AvatarKey \cup Updated
    BY Zenon DEF Cols, Phone, AvatarKey
  <1>10. Cols("schedule", D \cup {"rate_type", "rate_amount"} \cup {"currency"}, FALSE) =
            ScheduleTable \cup RateOfDay \cup CurrencyOfDay
    BY <1>5, Zenon DEF Cols, RateOfDay, CurrencyOfDay
  <1> DEFINE C == Cols("company", CompanyNames, FALSE)
             P == Cols("employee_profile", ProfileNames, FALSE)
  <1>11. Models = (C \cup ContactName) \cup (Logo \cup CompanyNumbers) \cup UserColumns
                    \cup (P \cup FullName) \cup (Phone \cup AvatarKey \cup Updated)
                    \cup (ScheduleTable \cup RateOfDay \cup CurrencyOfDay)
                    \cup AdjustmentColumns \cup CodeColumns \cup EntryColumns \cup CheckOut
    BY <1>4, <1>6, <1>7, <1>8, <1>9, <1>10, Zenon
  <1>12. LastingOfCompany = C \cup Logo /\ LastingOfProfile = P \cup Updated
    BY Zenon DEF LastingOfCompany, LastingOfProfile
  <1> HIDE DEF C, P, Logo, Updated
  <1> QED
    BY <1>11, <1>12, SMT DEF Lasting, Untouched

-----------------------------------------------------------------------------
(***************************************************************************)
(* The schema of each revision.                                            *)
(***************************************************************************)
\* SchemaAt is the function that its definition asks for: there is one.
LEMMA SchemaAtIs ==
    SchemaAt = [r \in 0..LastRevision |->
                   IF r = 0 THEN {} ELSE (SchemaAt[r - 1] \ UpDrops[r]) \cup UpAdds[r]]
  <1> DEFINE Up(S, r) == (S \ UpDrops[r]) \cup UpAdds[r]
             s1 == Up({}, 1)
             s2 == Up(s1, 2)
             s3 == Up(s2, 3)
             s4 == Up(s3, 4)
             s5 == Up(s4, 5)
             s6 == Up(s5, 6)
             s7 == Up(s6, 7)
             s8 == Up(s7, 8)
             s9 == Up(s8, 9)
             f == [r \in 0..9 |-> CASE r = 0 -> {} [] r = 1 -> s1 [] r = 2 -> s2 [] r = 3 -> s3
                                    [] r = 4 -> s4 [] r = 5 -> s5 [] r = 6 -> s6
                                    [] r = 7 -> s7 [] r = 8 -> s8 [] OTHER -> s9]
             Good(g) == g = [r \in 0..LastRevision |-> IF r = 0 THEN {} ELSE Up(g[r - 1], r)]
  <1>1. /\ s1 = Up({}, 1) /\ s2 = Up(s1, 2) /\ s3 = Up(s2, 3) /\ s4 = Up(s3, 4)
        /\ s5 = Up(s4, 5) /\ s6 = Up(s5, 6) /\ s7 = Up(s6, 7) /\ s8 = Up(s7, 8)
        /\ s9 = Up(s8, 9)
    OBVIOUS
  <1> HIDE DEF s1, s2, s3, s4, s5, s6, s7, s8, s9, Up
  <1>2. /\ f[0] = {} /\ f[1] = s1 /\ f[2] = s2 /\ f[3] = s3 /\ f[4] = s4
        /\ f[5] = s5 /\ f[6] = s6 /\ f[7] = s7 /\ f[8] = s8 /\ f[9] = s9
    OBVIOUS
  <1>3. \A r \in 0..9 : f[r] = IF r = 0 THEN {} ELSE Up(f[r - 1], r)
    <2> HIDE DEF f
    <2> SUFFICES ASSUME NEW r \in 0..9 PROVE f[r] = IF r = 0 THEN {} ELSE Up(f[r - 1], r)
      OBVIOUS
    <2>1. r = 0 \/ r = 1 \/ r = 2 \/ r = 3 \/ r = 4 \/ r = 5 \/ r = 6 \/ r = 7 \/ r = 8 \/ r = 9
      OBVIOUS
    <2> QED
      BY <1>1, <1>2, <2>1
  <1>4. f = [r \in 0..9 |-> f[r]]
    OBVIOUS
  <1> HIDE DEF f
  <1>5. f = [r \in 0..9 |-> IF r = 0 THEN {} ELSE Up(f[r - 1], r)]
    BY <1>3, <1>4
  <1>6. Good(f)
    BY <1>5 DEF LastRevision
  <1>7. SchemaAt = CHOOSE g : Good(g)
    BY Zenon DEF SchemaAt, Up
  <1> HIDE DEF Good
  <1>8. Good(SchemaAt)
    BY <1>6, <1>7, Zenon
  <1> QED
    BY <1>8 DEF Good, Up

\* The operations of each revision.
LEMMA RevisionsAre ==
    /\ UpDrops[1] = {} /\ UpAdds[1] = Initial
    /\ UpDrops[2] = ContactPhone /\ UpAdds[2] = ContactName
    /\ UpDrops[3] = {} /\ UpAdds[3] = Phone
    /\ UpDrops[4] = NameParts /\ UpAdds[4] = FullName
    /\ UpDrops[5] = {} /\ UpAdds[5] = ScheduleTable
    /\ UpDrops[6] = {} /\ UpAdds[6] = RateOfDay
    /\ UpDrops[7] = {} /\ UpAdds[7] = AvatarKey
    /\ UpDrops[8] = {} /\ UpAdds[8] = CompanyNumbers \cup CurrencyOfDay
    /\ UpDrops[9] = ApiSession /\ UpAdds[9] = {}
  BY DEF UpDrops, UpAdds

\* A downgrade drops what the upgrade of its revision adds, and adds what it drops.
LEMMA DownIsUpBack ==
    \A r \in 1..9 : DownDrops[r] = UpAdds[r] /\ DownAdds[r] = UpDrops[r]
  <1>1. /\ DownDrops[1] = Initial /\ DownAdds[1] = {}
        /\ DownDrops[2] = ContactName /\ DownAdds[2] = ContactPhone
        /\ DownDrops[3] = Phone /\ DownAdds[3] = {}
        /\ DownDrops[4] = FullName /\ DownAdds[4] = NameParts
        /\ DownDrops[5] = ScheduleTable /\ DownAdds[5] = {}
        /\ DownDrops[6] = RateOfDay /\ DownAdds[6] = {}
        /\ DownDrops[7] = AvatarKey /\ DownAdds[7] = {}
        /\ DownDrops[8] = CurrencyOfDay \cup CompanyNumbers /\ DownAdds[8] = {}
        /\ DownDrops[9] = {} /\ DownAdds[9] = ApiSession
    BY DEF DownDrops, DownAdds
  <1>2. CompanyNumbers \cup CurrencyOfDay = CurrencyOfDay \cup CompanyNumbers
    OBVIOUS
  <1> SUFFICES ASSUME NEW r \in 1..9
               PROVE  DownDrops[r] = UpAdds[r] /\ DownAdds[r] = UpDrops[r]
    OBVIOUS
  <1>3. CASE r = 1
    BY <1>1, <1>3, RevisionsAre
  <1>4. CASE r = 2
    BY <1>1, <1>4, RevisionsAre
  <1>5. CASE r = 3
    BY <1>1, <1>5, RevisionsAre
  <1>6. CASE r = 4
    BY <1>1, <1>6, RevisionsAre
  <1>7. CASE r = 5
    BY <1>1, <1>7, RevisionsAre
  <1>8. CASE r = 6
    BY <1>1, <1>8, RevisionsAre
  <1>9. CASE r = 7
    BY <1>1, <1>9, RevisionsAre
  <1>10. CASE r = 8
    BY <1>1, <1>2, <1>10, RevisionsAre
  <1>11. CASE r = 9
    BY <1>1, <1>11, RevisionsAre
  <1> QED
    BY <1>3, <1>4, <1>5, <1>6, <1>7, <1>8, <1>9, <1>10, <1>11

\* The schema of every revision, in the groups that it consists of.
LEMMA SchemasAre ==
    /\ SchemaAt[0] = {}
    /\ SchemaAt[1] = Initial
    /\ SchemaAt[2] = (Initial \ ContactPhone) \cup ContactName
    /\ SchemaAt[3] = SchemaAt[2] \cup Phone
    /\ SchemaAt[4] = (SchemaAt[3] \ NameParts) \cup FullName
    /\ SchemaAt[5] = SchemaAt[4] \cup ScheduleTable
    /\ SchemaAt[6] = SchemaAt[5] \cup RateOfDay
    /\ SchemaAt[7] = SchemaAt[6] \cup AvatarKey
    /\ SchemaAt[8] = SchemaAt[7] \cup CompanyNumbers \cup CurrencyOfDay
    /\ SchemaAt[9] = SchemaAt[8] \ ApiSession
  <1>1. \A r \in 0..9 : SchemaAt[r] = IF r = 0 THEN {}
                                      ELSE (SchemaAt[r - 1] \ UpDrops[r]) \cup UpAdds[r]
    BY SchemaAtIs DEF LastRevision
  <1>2. /\ SchemaAt[0] = {}
        /\ SchemaAt[1] = (SchemaAt[0] \ UpDrops[1]) \cup UpAdds[1]
        /\ SchemaAt[2] = (SchemaAt[1] \ UpDrops[2]) \cup UpAdds[2]
        /\ SchemaAt[3] = (SchemaAt[2] \ UpDrops[3]) \cup UpAdds[3]
        /\ SchemaAt[4] = (SchemaAt[3] \ UpDrops[4]) \cup UpAdds[4]
        /\ SchemaAt[5] = (SchemaAt[4] \ UpDrops[5]) \cup UpAdds[5]
        /\ SchemaAt[6] = (SchemaAt[5] \ UpDrops[6]) \cup UpAdds[6]
        /\ SchemaAt[7] = (SchemaAt[6] \ UpDrops[7]) \cup UpAdds[7]
        /\ SchemaAt[8] = (SchemaAt[7] \ UpDrops[8]) \cup UpAdds[8]
        /\ SchemaAt[9] = (SchemaAt[8] \ UpDrops[9]) \cup UpAdds[9]
    BY <1>1
  <1> QED
    BY <1>2, RevisionsAre

\* An upgrade drops columns that are there and adds columns that are not.
LEMMA UpgradesFit ==
    \A r \in 1..9 : UpDrops[r] \subseteq SchemaAt[r - 1] /\ UpAdds[r] \cap SchemaAt[r - 1] = {}
  <1> USE InitialIs, LastingIsApart, Groups
  <1>1. \A c \in SchemaAt[1] : Group(c) \in {0, 1, 4, 8}
    BY SchemasAre
  <1>2. \A c \in SchemaAt[2] : Group(c) \in {0, 2, 4, 8}
    BY <1>1, SchemasAre
  <1>3. \A c \in SchemaAt[3] : Group(c) \in {0, 2, 4, 6, 8}
    BY <1>2, SchemasAre
  <1>4. \A c \in SchemaAt[4] : Group(c) \in {0, 2, 4, 5, 6, 8}
    BY <1>3, SchemasAre
  <1>5. \A c \in SchemaAt[5] : Group(c) \in {0, 2, 4, 5, 6, 8, 11}
    BY <1>4, SchemasAre
  <1>6. \A c \in SchemaAt[6] : Group(c) \in {0, 2, 4, 5, 6, 8, 9, 11}
    BY <1>5, SchemasAre
  <1>7. \A c \in SchemaAt[7] : Group(c) \in {0, 2, 4, 5, 6, 7, 8, 9, 11}
    BY <1>6, SchemasAre
  <1>8. ContactPhone \subseteq SchemaAt[1]
    BY SchemasAre
  <1>9. NameParts \subseteq SchemaAt[3] /\ ApiSession \subseteq SchemaAt[3]
    BY SchemasAre
  <1>10. ApiSession \subseteq SchemaAt[8]
    BY <1>9, SchemasAre
  <1> SUFFICES ASSUME NEW r \in 1..9
               PROVE  UpDrops[r] \subseteq SchemaAt[r - 1] /\ UpAdds[r] \cap SchemaAt[r - 1] = {}
    OBVIOUS
  <1>11. r = 1 \/ r = 2 \/ r = 3 \/ r = 4 \/ r = 5 \/ r = 6 \/ r = 7 \/ r = 8 \/ r = 9
    OBVIOUS
  <1>12. CASE r \in {1, 2, 3}
    BY <1>1, <1>2, <1>8, <1>12, SchemasAre, RevisionsAre
  <1>13. CASE r \in {4, 5, 6}
    BY <1>3, <1>4, <1>5, <1>9, <1>13, SchemasAre, RevisionsAre
  <1>14. CASE r \in {7, 8, 9}
    BY <1>6, <1>7, <1>10, <1>14, SchemasAre, RevisionsAre
  <1> QED
    BY <1>11, <1>12, <1>13, <1>14

\* An upgrade leads from one revision's schema to the next one's, a downgrade back.
LEMMA SchemaSteps ==
    \A r \in 1..9 : /\ (SchemaAt[r - 1] \ UpDrops[r]) \cup UpAdds[r] = SchemaAt[r]
                    /\ (SchemaAt[r] \ DownDrops[r]) \cup DownAdds[r] = SchemaAt[r - 1]
  <1> SUFFICES ASSUME NEW r \in 1..9
               PROVE  /\ (SchemaAt[r - 1] \ UpDrops[r]) \cup UpAdds[r] = SchemaAt[r]
                      /\ (SchemaAt[r] \ DownDrops[r]) \cup DownAdds[r] = SchemaAt[r - 1]
    OBVIOUS
  <1>1. SchemaAt[r] = (SchemaAt[r - 1] \ UpDrops[r]) \cup UpAdds[r]
    BY SchemaAtIs DEF LastRevision
  <1> QED
    BY <1>1, UpgradesFit, DownIsUpBack

\* The schema of the head is what models.py declares.
LEMMA HeadIsModels == SchemaAt[9] = Models
  <1>1. SchemaAt[9] =
            (((((Lasting \cup ContactPhone \cup NameParts \cup ApiSession) \ ContactPhone)
                 \cup ContactName \cup Phone) \ NameParts)
               \cup FullName \cup ScheduleTable \cup RateOfDay \cup AvatarKey
               \cup CompanyNumbers \cup CurrencyOfDay) \ ApiSession
    BY SchemasAre, InitialIs
  <1> QED
    BY <1>1, ModelsAre, Groups, LastingIsApart

-----------------------------------------------------------------------------
(***************************************************************************)
(* What a command sees and what is committed.                              *)
(***************************************************************************)
\* A database: its fields, its rows by employee, the schema of its revision.
Shape(w) ==
    /\ DOMAIN w = {"rev", "schema", "company", "profile", "day"}
    /\ DOMAIN w.profile = Employee /\ DOMAIN w.day = Employee
    /\ w.schema = SchemaAt[w.rev]

IInv == TypeOK /\ Shape(db) /\ Shape(work)

\* The rows of a database have the columns of its schema.
RowsAreWide(w) ==
    /\ w.company # NoRow =>
          DOMAIN w.company = Kept("company") \cap ColumnsOf("company", w.schema)
    /\ \A e \in Employee : w.profile[e] # NoRow =>
          DOMAIN w.profile[e] = Kept("employee_profile") \cap ColumnsOf("employee_profile", w.schema)
    /\ \A e \in Employee : w.day[e] # NoRow =>
          DOMAIN w.day[e] = Kept("schedule") \cap ColumnsOf("schedule", w.schema)

\* Well-formed is what the types and the columns of the rows say.
LEMMA WellFormedIs ==
    \A w : WellFormed(w) <=> w.rev \in 0..LastRevision /\ RowsFit(w) /\ RowsAreWide(w)
  BY Zenon DEF WellFormed, RowsAreWide

\* An upgrade that runs leads to a database at the next revision.
LEMMA UpgradedShape ==
    ASSUME NEW w, Shape(w), w.rev \in 0..8
    PROVE  /\ Shape(Upgraded(w)) /\ RowsAreWide(Upgraded(w))
           /\ Upgraded(w).rev = w.rev + 1
  <1> DEFINE k == w.rev + 1
             schema == (w.schema \ UpDrops[k]) \cup UpAdds[k]
             x == Upgraded(w)
  <1>1. k \in 1..9 /\ k - 1 = w.rev
    OBVIOUS
  <1>2. schema = SchemaAt[k]
    BY <1>1, SchemaSteps DEF Shape
  <1> HIDE DEF schema
  <1>3. x = Rebuilt(w, TRUE, k, schema)
    BY DEF Upgraded, schema
  <1> HIDE DEF k
  <1>4. /\ DOMAIN x = {"rev", "schema", "company", "profile", "day"}
        /\ x.rev = k /\ x.schema = schema
        /\ x.company = NoRow \/ \E f : x.company = Moved(w.company, "company", schema, f)
        /\ DOMAIN x.profile = Employee /\ DOMAIN x.day = Employee
        /\ \A e \in Employee :
              \/ x.profile[e] = NoRow
              \/ \E f : x.profile[e] = Moved(w.profile[e], "employee_profile", schema, f)
        /\ \A e \in Employee :
              \/ x.day[e] = NoRow
              \/ \E f : x.day[e] = Moved(w.day[e], "schedule", schema, f)
    <2> HIDE DEF x
    <2> QED BY <1>3 DEF Rebuilt
  <1> HIDE DEF x
  <1>5. Shape(x)
    BY <1>2, <1>4 DEF Shape
  <1>6. RowsAreWide(x)
    <2>1. ASSUME x.company # NoRow
          PROVE  DOMAIN x.company = Kept("company") \cap ColumnsOf("company", schema)
      <3>1. PICK f : x.company = Moved(w.company, "company", schema, f)
        BY <1>4, <2>1
      <3> QED BY <3>1 DEF Moved
    <2>2. ASSUME NEW e \in Employee, x.profile[e] # NoRow
          PROVE  DOMAIN x.profile[e] =
                     Kept("employee_profile") \cap ColumnsOf("employee_profile", schema)
      <3>1. PICK f : x.profile[e] = Moved(w.profile[e], "employee_profile", schema, f)
        BY <1>4, <2>2
      <3> QED BY <3>1 DEF Moved
    <2>3. ASSUME NEW e \in Employee, x.day[e] # NoRow
          PROVE  DOMAIN x.day[e] = Kept("schedule") \cap ColumnsOf("schedule", schema)
      <3>1. PICK f : x.day[e] = Moved(w.day[e], "schedule", schema, f)
        BY <1>4, <2>3
      <3> QED BY <3>1 DEF Moved
    <2> QED
      BY <1>4, <2>1, <2>2, <2>3, Zenon DEF RowsAreWide
  <1> QED
    BY <1>4, <1>5, <1>6 DEF x, k

\* A downgrade that runs leads to a database at the revision before.
LEMMA DowngradedShape ==
    ASSUME NEW w, Shape(w), w.rev \in 1..9
    PROVE  /\ Shape(Downgraded(w)) /\ RowsAreWide(Downgraded(w))
           /\ Downgraded(w).rev = w.rev - 1
  <1> DEFINE schema == (w.schema \ DownDrops[w.rev]) \cup DownAdds[w.rev]
             x == Downgraded(w)
  <1>2. schema = SchemaAt[w.rev - 1]
    BY SchemaSteps DEF Shape
  <1> HIDE DEF schema
  <1>3. x = Rebuilt(w, FALSE, w.rev, schema)
    BY DEF Downgraded, schema
  <1>4. /\ DOMAIN x = {"rev", "schema", "company", "profile", "day"}
        /\ x.rev = w.rev - 1 /\ x.schema = schema
        /\ x.company = NoRow \/ \E f : x.company = Moved(w.company, "company", schema, f)
        /\ DOMAIN x.profile = Employee /\ DOMAIN x.day = Employee
        /\ \A e \in Employee :
              \/ x.profile[e] = NoRow
              \/ \E f : x.profile[e] = Moved(w.profile[e], "employee_profile", schema, f)
        /\ \A e \in Employee :
              \/ x.day[e] = NoRow
              \/ \E f : x.day[e] = Moved(w.day[e], "schedule", schema, f)
    <2> HIDE DEF x
    <2> QED BY <1>3 DEF Rebuilt
  <1> HIDE DEF x
  <1>5. Shape(x)
    BY <1>2, <1>4 DEF Shape
  <1>6. RowsAreWide(x)
    <2>1. ASSUME x.company # NoRow
          PROVE  DOMAIN x.company = Kept("company") \cap ColumnsOf("company", schema)
      <3>1. PICK f : x.company = Moved(w.company, "company", schema, f)
        BY <1>4, <2>1
      <3> QED BY <3>1 DEF Moved
    <2>2. ASSUME NEW e \in Employee, x.profile[e] # NoRow
          PROVE  DOMAIN x.profile[e] =
                     Kept("employee_profile") \cap ColumnsOf("employee_profile", schema)
      <3>1. PICK f : x.profile[e] = Moved(w.profile[e], "employee_profile", schema, f)
        BY <1>4, <2>2
      <3> QED BY <3>1 DEF Moved
    <2>3. ASSUME NEW e \in Employee, x.day[e] # NoRow
          PROVE  DOMAIN x.day[e] = Kept("schedule") \cap ColumnsOf("schedule", schema)
      <3>1. PICK f : x.day[e] = Moved(w.day[e], "schedule", schema, f)
        BY <1>4, <2>3
      <3> QED BY <3>1 DEF Moved
    <2> QED
      BY <1>4, <2>1, <2>2, <2>3, Zenon DEF RowsAreWide
  <1> QED
    BY <1>4, <1>5, <1>6 DEF x

\* An empty database.
LEMMA InitIInv == Init => IInv
  <1> SUFFICES ASSUME Init PROVE IInv
    OBVIOUS
  <1>1. /\ DOMAIN db = {"rev", "schema", "company", "profile", "day"}
        /\ db.rev = 0 /\ db.schema = {} /\ db.company = NoRow
        /\ db.profile = NoRows /\ db.day = NoRows
    BY DEF Init
  <1>2. DOMAIN NoRows = Employee /\ \A e \in Employee : NoRows[e] = NoRow
    BY DEF NoRows
  <1>3. Shape(db)
    BY <1>1, <1>2, SchemasAre DEF Shape
  <1>4. RowsFit(db) /\ RowsAreWide(db)
    BY <1>1, <1>2, Zenon DEF RowsFit, RowsAreWide
  <1>5. WellFormed(db)
    BY <1>1, <1>4, WellFormedIs DEF LastRevision
  <1>6. /\ cmd \in {"idle", "up", "down"} /\ target \in 0..LastRevision
        /\ \A e \in Employee : low[e] \in 0..db.rev
        /\ writes \in 0..MaxWrites /\ work = db
    BY <1>1, MigrationsAssumption DEF Init, LastRevision
  <1> QED
    BY <1>3, <1>5, <1>6 DEF IInv, TypeOK

\* A step of a command that changes only what it sees.
LEMMA WorkSteps ==
    ASSUME IInv, Shape(work'), WellFormed(work'), cmd # "idle",
           UNCHANGED <<db, cmd, target, told, low, writes>>
    PROVE  IInv'
  BY DEF IInv, TypeOK

\* One revision up.
LEMMA UpgradeStepKeeps == ASSUME IInv, UpgradeStep PROVE IInv'
  <1>1. work.rev \in 0..8
    BY DEF UpgradeStep, IInv, TypeOK, WellFormed, LastRevision
  <1>2. /\ Shape(Upgraded(work)) /\ RowsAreWide(Upgraded(work))
        /\ Upgraded(work).rev = work.rev + 1
    BY <1>1, UpgradedShape DEF IInv
  <1>3. work' = Upgraded(work) /\ RowsFit(Upgraded(work))
    BY DEF UpgradeStep, UpgradeRuns
  <1>4. WellFormed(Upgraded(work))
    BY <1>1, <1>2, <1>3, WellFormedIs DEF LastRevision
  <1> QED
    BY <1>2, <1>3, <1>4, WorkSteps DEF UpgradeStep

\* One revision down.
LEMMA DowngradeStepKeeps == ASSUME IInv, DowngradeStep PROVE IInv'
  <1>1. work.rev \in 1..9
    BY DEF DowngradeStep, IInv, TypeOK, WellFormed, LastRevision
  <1>2. /\ Shape(Downgraded(work)) /\ RowsAreWide(Downgraded(work))
        /\ Downgraded(work).rev = work.rev - 1
    BY <1>1, DowngradedShape DEF IInv
  <1>3. work' = Downgraded(work) /\ RowsFit(Downgraded(work))
    BY DEF DowngradeStep, DowngradeRuns
  <1>4. WellFormed(Downgraded(work))
    BY <1>1, <1>2, <1>3, WellFormedIs DEF LastRevision
  <1> QED
    BY <1>2, <1>3, <1>4, WorkSteps DEF DowngradeStep

\* A command comes in, commits or ends.
LEMMA CommandsKeep ==
    ASSUME IInv,
           \/ \E c \in {"up", "down"}, r \in Targets(db.rev) : Command(c, r)
           \/ CommandCommits \/ CommandEnds
    PROVE  IInv'
  <1>1. CASE \E c \in {"up", "down"}, r \in Targets(db.rev) : Command(c, r)
    BY <1>1 DEF Command, Targets, IInv, TypeOK
  <1>2. CASE CommandCommits
    <2>1. \A e \in Employee : low'[e] \in 0..work.rev
      <3> SUFFICES ASSUME NEW e \in Employee PROVE low'[e] \in 0..work.rev
        OBVIOUS
      <3>1. low[e] \in 0..db.rev /\ db.rev \in 0..9 /\ work.rev \in 0..9 /\ target = work.rev
        BY <1>2 DEF CommandCommits, IInv, TypeOK, WellFormed, LastRevision
      <3>2. low'[e] = IF target < low[e] THEN target ELSE low[e]
        BY <1>2 DEF CommandCommits
      <3> QED
        BY <3>1, <3>2
    <2> QED
      BY <1>2, <2>1 DEF CommandCommits, IInv, TypeOK, LastRevision
  <1>3. CASE CommandEnds
    BY <1>3 DEF CommandEnds, IInv, TypeOK, LastRevision
  <1> QED
    BY <1>1, <1>2, <1>3

\* A release writes what changes only rows.
LEMMA WritesKeep ==
    ASSUME IInv, NEW x, Shape(x), RowsFit(x), RowsAreWide(x), x.rev = db.rev,
           cmd = "idle", db' = x, work' = db', writes < MaxWrites, writes' = writes + 1,
           \A e \in Employee : low'[e] \in 0..db.rev, UNCHANGED <<cmd, target>>
    PROVE  IInv'
  <1>1. WellFormed(x)
    BY WellFormedIs DEF IInv, TypeOK
  <1>2. writes' \in 0..MaxWrites
    BY MigrationsAssumption DEF IInv, TypeOK
  <1> QED
    BY <1>1, <1>2 DEF IInv, TypeOK

\* The company's row.
LEMMA WriteCompanyKeeps == ASSUME IInv, NEW s, WriteCompany(s) PROVE IInv'
  <1>1. PICK row : /\ row = [c \in Kept("company") \cap ColumnsOf("company", db.schema) |-> s]
                   /\ Fits(row, "company", db.schema)
                   /\ db' = [db EXCEPT !.company = row]
    BY Zenon DEF WriteCompany
  <1> DEFINE x == [db EXCEPT !.company = row]
  <1>2. /\ DOMAIN x = DOMAIN db /\ x.company = row /\ x.rev = db.rev /\ x.schema = db.schema
        /\ x.profile = db.profile /\ x.day = db.day
    BY DEF IInv, Shape
  <1>3. DOMAIN row = Kept("company") \cap ColumnsOf("company", db.schema)
    BY <1>1
  <1>4. db' = x
    BY <1>1
  <1> HIDE DEF x
  <1>5. RowsFit(db) /\ RowsAreWide(db)
    BY WellFormedIs DEF IInv, TypeOK
  <1>6. Shape(x)
    BY <1>2 DEF IInv, Shape
  <1>7. RowsFit(x)
    BY <1>1, <1>2, <1>5, Zenon DEF RowsFit
  <1>8. RowsAreWide(x)
    BY <1>2, <1>3, <1>5, Zenon DEF RowsAreWide
  <1>9. \A e \in Employee : low'[e] \in 0..db.rev
    BY DEF WriteCompany, IInv, TypeOK
  <1> QED
    BY <1>2, <1>4, <1>6, <1>7, <1>8, <1>9, WritesKeep DEF WriteCompany

\* The day that a release schedules fits its columns: its rate is filled in.
LEMMA DayFits ==
    ASSUME NEW snap \in Pays, NEW schema,
           NEW day, day = [c \in Kept("schedule") \cap ColumnsOf("schedule", schema)
                              |-> [rate_type |-> snap[1], currency |-> snap[2]][c]]
    PROVE  Fits(day, "schedule", schema)
  <1>1. Kept("schedule") = {"rate_type", "currency"}
    BY DEF Kept
  <1>2. DOMAIN Size = {"contact_phone", "contact_name", "full_name", "first_name", "last_name",
                       "patronymic"}
    BY DEF Size
  <1>3. snap[1] # Null /\ snap[2] # Null
    BY MigrationsAssumption
  <1> SUFFICES ASSUME NEW c \in DOMAIN day PROVE day[c] # Null /\ c \notin DOMAIN Size
    BY DEF Fits
  <1>4. c \in {"rate_type", "currency"}
    BY <1>1
  <1>5. day[c] = [rate_type |-> snap[1], currency |-> snap[2]][c]
    OBVIOUS
  <1> QED
    BY <1>2, <1>3, <1>4, <1>5

\* An employee's row and day.
LEMMA WriteEmployeeKeeps ==
    ASSUME IInv, NEW e \in Employee, NEW name, NEW snap \in Pays, WriteEmployee(e, name, snap)
    PROVE  IInv'
  <1> DEFINE given == [phone |-> "phone", avatar_key |-> "key",
                       rate_type |-> PayOf[e][1], currency |-> PayOf[e][2]]
             row == [c \in Kept("employee_profile") \cap ColumnsOf("employee_profile", db.schema)
                        |-> IF c \in DOMAIN name THEN name[c] ELSE given[c]]
             dated == [c \in Kept("schedule") \cap ColumnsOf("schedule", db.schema)
                          |-> [rate_type |-> snap[1], currency |-> snap[2]][c]]
             day == IF "schedule" \notin Tables(db.schema) THEN NoRow ELSE dated
             x == [db EXCEPT !.profile = [@ EXCEPT ![e] = row], !.day = [@ EXCEPT ![e] = day]]
  <1>1. /\ cmd = "idle" /\ writes < MaxWrites
        /\ Fits(row, "employee_profile", db.schema)
        /\ db' = x
        /\ work' = db' /\ writes' = writes + 1
        /\ low' = [low EXCEPT ![e] = db.rev]
        /\ UNCHANGED <<cmd, target>>
    BY Zenon DEF WriteEmployee
  <1>2. DOMAIN row = Kept("employee_profile") \cap ColumnsOf("employee_profile", db.schema)
    OBVIOUS
  <1>3. Fits(dated, "schedule", db.schema)
    BY DayFits
  <1>4. day = NoRow \/ (day = dated /\ Fits(day, "schedule", db.schema))
    BY <1>3
  <1>5. DOMAIN dated = Kept("schedule") \cap ColumnsOf("schedule", db.schema)
    OBVIOUS
  <1> HIDE DEF given, row, dated, day
  <1>6. /\ DOMAIN x = DOMAIN db /\ x.company = db.company /\ x.rev = db.rev
        /\ x.schema = db.schema
        /\ x.profile = [db.profile EXCEPT ![e] = row] /\ x.day = [db.day EXCEPT ![e] = day]
    BY DEF IInv, Shape
  <1>7. /\ DOMAIN x.profile = Employee /\ DOMAIN x.day = Employee
        /\ \A f \in Employee : x.profile[f] = IF f = e THEN row ELSE db.profile[f]
        /\ \A f \in Employee : x.day[f] = IF f = e THEN day ELSE db.day[f]
    BY <1>6 DEF IInv, Shape
  <1> HIDE DEF x
  <1>8. RowsFit(db) /\ RowsAreWide(db)
    BY WellFormedIs DEF IInv, TypeOK
  <1>9. Shape(x)
    BY <1>6, <1>7 DEF IInv, Shape
  <1>10. RowsFit(x)
    <2>1. x.company # NoRow => Fits(x.company, "company", x.schema)
      BY <1>6, <1>8 DEF RowsFit
    <2>2. ASSUME NEW f \in Employee
          PROVE  /\ x.profile[f] # NoRow => Fits(x.profile[f], "employee_profile", x.schema)
                 /\ x.day[f] # NoRow => Fits(x.day[f], "schedule", x.schema)
      BY <1>1, <1>4, <1>6, <1>7, <1>8 DEF RowsFit
    <2> QED
      BY <2>1, <2>2, Zenon DEF RowsFit
  <1>11. RowsAreWide(x)
    <2>1. x.company # NoRow =>
              DOMAIN x.company = Kept("company") \cap ColumnsOf("company", x.schema)
      BY <1>6, <1>8 DEF RowsAreWide
    <2>2. ASSUME NEW f \in Employee
          PROVE  /\ x.profile[f] # NoRow =>
                      DOMAIN x.profile[f] = Kept("employee_profile")
                                              \cap ColumnsOf("employee_profile", x.schema)
                 /\ x.day[f] # NoRow =>
                      DOMAIN x.day[f] = Kept("schedule") \cap ColumnsOf("schedule", x.schema)
      BY <1>2, <1>4, <1>5, <1>6, <1>7, <1>8 DEF RowsAreWide
    <2> QED
      BY <2>1, <2>2, Zenon DEF RowsAreWide
  <1>12. \A f \in Employee : low'[f] \in 0..db.rev
    BY <1>1 DEF IInv, TypeOK, WellFormed, LastRevision
  <1> QED
    BY <1>1, <1>6, <1>9, <1>10, <1>11, <1>12, WritesKeep

\* Every step keeps the invariant.
LEMMA NextIInv == IInv /\ [Next]_vars => IInv'
  <1> SUFFICES ASSUME IInv, [Next]_vars PROVE IInv'
    OBVIOUS
  <1>1. CASE \E c \in {"up", "down"}, r \in Targets(db.rev) : Command(c, r)
    BY <1>1, CommandsKeep, Zenon
  <1>2. CASE UpgradeStep
    BY <1>2, UpgradeStepKeeps
  <1>3. CASE DowngradeStep
    BY <1>3, DowngradeStepKeeps
  <1>4. CASE CommandCommits \/ CommandEnds
    BY <1>4, CommandsKeep, Zenon
  <1>5. CASE \E s \in Contacts : WriteCompany(s)
    BY <1>5, WriteCompanyKeeps, Zenon
  <1>6. CASE \E e \in Employee, name \in Names :
                \E snap \in Pays \ {PayOf[e]} : WriteEmployee(e, name, snap)
    <2>1. PICK e \in Employee, name \in Names, snap \in Pays : WriteEmployee(e, name, snap)
      BY <1>6, Zenon
    <2> QED
      BY <2>1, WriteEmployeeKeeps, Zenon
  <1>7. CASE UNCHANGED vars
    BY <1>7 DEF vars, IInv, TypeOK
  <1> QED
    BY <1>1, <1>2, <1>3, <1>4, <1>5, <1>6, <1>7, Zenon DEF Next

\* However commands and writes follow each other, what is committed and what a command
\* sees between its revisions are well-formed.
THEOREM MigrationsTyped == Spec => []TypeOK
  <1>1. IInv => TypeOK
    BY DEF IInv
  <1> QED
    BY <1>1, InitIInv, NextIInv, PTL DEF Spec

\* Whatever commands have been run, finished or aborted, the columns are those of the
\* revision that the database is at, and at the head those of models.py.
THEOREM SchemaFollowsRevision == Spec => []SchemaIsTheRevisions
  <1>1. IInv => SchemaIsTheRevisions
    BY HeadIsModels DEF IInv, Shape, SchemaIsTheRevisions, LastRevision
  <1> QED
    BY <1>1, InitIInv, NextIInv, PTL DEF Spec

-----------------------------------------------------------------------------
(***************************************************************************)
(* Texts: their words and their letters.                                   *)
(***************************************************************************)
\* A shifted set has as many elements.
LEMMA Shifted ==
    ASSUME NEW A, A \subseteq Nat, IsFiniteSet(A), NEW n \in Nat
    PROVE  Cardinality({n + j : j \in A}) = Cardinality(A) /\ IsFiniteSet({n + j : j \in A})
  <1> DEFINE B == {n + j : j \in A}
             f == [j \in A |-> n + j]
  <1>1. f \in Bijection(A, B)
    BY DEF Bijection, Injection, Surjection, IsInjective
  <1>2. ExistsBijection(A, B)
    BY <1>1 DEF ExistsBijection
  <1> QED
    BY <1>2, FS_Bijection

\* A text: its length and its words.
LEMMA TextIs == \A s \in Seq(Word) : Len(s) \in Nat /\ \A i \in 1..Len(s) : s[i] \in Word
  OBVIOUS

\* A letter has the number of its word and its number in it.
LEMMA LetterIs ==
    ASSUME NEW s \in Seq(Word)
    PROVE  \A x : x \in Letters(s) <=>
               \E i \in 1..Len(s) : \E k \in 1..WordLen[s[i]] : x = <<i, k>>
  <1> SUFFICES ASSUME NEW x
               PROVE  x \in Letters(s) <=>
                          \E i \in 1..Len(s) : \E k \in 1..WordLen[s[i]] : x = <<i, k>>
    OBVIOUS
  <1> DEFINE Of(i) == {<<i, k>> : k \in 1..WordLen[s[i]]}
  <1>1. x \in Letters(s) <=> \E i \in 1..Len(s) : x \in Of(i)
    BY DEF Letters
  <1> QED
    BY <1>1

\* A text has finitely many letters.
LEMMA LettersFinite == ASSUME NEW s \in Seq(Word) PROVE IsFiniteSet(Letters(s))
  <1> DEFINE Of(i) == {<<i, k>> : k \in 1..WordLen[s[i]]}
             All == {Of(i) : i \in 1..Len(s)}
  <1>1. ASSUME NEW i \in 1..Len(s) PROVE IsFiniteSet(Of(i))
    <2>1. WordLen[s[i]] \in Nat
      BY MigrationsAssumption, TextIs
    <2> DEFINE A == 1..WordLen[s[i]]
               f == [k \in A |-> <<i, k>>]
    <2>2. f \in Surjection(A, Of(i))
      BY DEF Surjection
    <2>3. IsFiniteSet(A)
      <3>1. 1 \in Int /\ WordLen[s[i]] \in Int
        BY <2>1
      <3> HIDE DEF f
      <3> QED BY <3>1, FS_Interval
    <2> QED
      BY <2>2, <2>3, FS_Surjection
  <1>2. IsFiniteSet(All)
    <2> DEFINE A == 1..Len(s)
               f == [i \in A |-> Of(i)]
    <2>1. f \in Surjection(A, All)
      BY DEF Surjection
    <2>2. IsFiniteSet(A)
      BY FS_Interval, TextIs
    <2> HIDE DEF All, A, f
    <2> QED
      BY <2>1, <2>2, FS_Surjection
  <1>3. \A T \in All : IsFiniteSet(T)
    BY <1>1
  <1> HIDE DEF All
  <1>4. IsFiniteSet(UNION All)
    BY <1>2, <1>3, FS_UNION
  <1>5. Letters(s) = UNION All
    BY DEF Letters, All
  <1> QED
    BY <1>4, <1>5

\* The length of a text is an integer, from -1 for no word at all.
LEMMA TextLenInt ==
    ASSUME NEW s \in Seq(Word)
    PROVE  TextLen(s) \in Int /\ TextLen(s) >= Len(s) - 1
  <1>1. Cardinality(Letters(s)) \in Nat
    BY LettersFinite, FS_CardinalityType
  <1> QED
    BY <1>1, TextIs DEF TextLen

\* The letters of two texts one after the other.
LEMMA ConcatLetters ==
    ASSUME NEW s \in Seq(Word), NEW t \in Seq(Word)
    PROVE  Letters(s \o t) = Letters(s) \cup {<<Len(s) + x[1], x[2]>> : x \in Letters(t)}
  <1> DEFINE c == s \o t
             m == Len(s)
             n == Len(t)
             T == {<<m + x[1], x[2]>> : x \in Letters(t)}
  <1>1. /\ c \in Seq(Word) /\ Len(c) = m + n /\ m \in Nat /\ n \in Nat
        /\ \A i \in 1..(m + n) : c[i] = IF i <= m THEN s[i] ELSE t[i - m]
    BY ConcatProperties, TextIs
  <1> HIDE DEF c
  <1>2. ASSUME NEW x \in Letters(c) PROVE x \in Letters(s) \cup T
    <2>1. PICK i \in 1..(m + n) : \E k \in 1..WordLen[c[i]] : x = <<i, k>>
      BY <1>1, <1>2, LetterIs
    <2>2. PICK k \in 1..WordLen[c[i]] : x = <<i, k>>
      BY <2>1
    <2>3. CASE i <= m
      <3>1. i \in 1..Len(s) /\ c[i] = s[i]
        BY <1>1, <2>3
      <3> QED BY <2>2, <3>1, LetterIs
    <2>4. CASE ~(i <= m)
      <3>1. i - m \in 1..Len(t) /\ c[i] = t[i - m] /\ m + (i - m) = i
        BY <1>1, <2>4
      <3>2. <<i - m, k>> \in Letters(t)
        BY <2>2, <3>1, LetterIs
      <3>3. x = <<m + <<i - m, k>>[1], <<i - m, k>>[2]>>
        BY <2>2, <3>1
      <3> QED BY <3>2, <3>3
    <2> QED BY <2>3, <2>4
  <1>3. ASSUME NEW x \in Letters(s) PROVE x \in Letters(c)
    <2>1. PICK i \in 1..Len(s) : \E k \in 1..WordLen[s[i]] : x = <<i, k>>
      BY <1>3, LetterIs
    <2>2. i \in 1..Len(c) /\ c[i] = s[i]
      BY <1>1
    <2> QED BY <1>1, <2>1, <2>2, LetterIs
  <1>4. ASSUME NEW x \in T PROVE x \in Letters(c)
    <2>1. PICK y \in Letters(t) : x = <<m + y[1], y[2]>>
      BY <1>4
    <2>2. PICK i \in 1..Len(t) : \E k \in 1..WordLen[t[i]] : y = <<i, k>>
      BY <2>1, LetterIs
    <2>3. PICK k \in 1..WordLen[t[i]] : y = <<i, k>>
      BY <2>2
    <2>4. m + i \in 1..Len(c) /\ c[m + i] = t[i]
      <3>1. m + i \in 1..(m + n) /\ ~(m + i <= m) /\ (m + i) - m = i
        BY <1>1
      <3> QED BY <1>1, <3>1
    <2>5. x = <<m + i, k>>
      BY <2>1, <2>3
    <2> QED BY <1>1, <2>3, <2>4, <2>5, LetterIs
  <1> HIDE DEF T
  <1>5. Letters(c) = Letters(s) \cup T
    BY <1>2, <1>3, <1>4
  <1> QED
    BY <1>5 DEF T, c

\* A space between two texts, and the letters of both.
LEMMA ConcatLen ==
    ASSUME NEW s \in Seq(Word), NEW t \in Seq(Word)
    PROVE  s \o t \in Seq(Word) /\ TextLen(s \o t) = TextLen(s) + TextLen(t) + 1
  <1> DEFINE T == {<<Len(s) + x[1], x[2]>> : x \in Letters(t)}
             f == [x \in Letters(t) |-> <<Len(s) + x[1], x[2]>>]
  <1>1. \A x \in Letters(t) : x[1] \in 1..Len(t) /\ x = <<x[1], x[2]>>
    BY LetterIs
  <1>2. \A x \in Letters(s) : x[1] \in 1..Len(s)
    BY LetterIs
  <1>3. Len(s) \in Nat /\ Len(t) \in Nat /\ Len(s \o t) = Len(s) + Len(t) /\ s \o t \in Seq(Word)
    BY TextIs, ConcatProperties
  <1>4. f \in Bijection(Letters(t), T)
    <2>1. f \in [Letters(t) -> T]
      OBVIOUS
    <2>2. \A x, y \in Letters(t) : f[x] = f[y] => x = y
      <3> SUFFICES ASSUME NEW x \in Letters(t), NEW y \in Letters(t), f[x] = f[y] PROVE x = y
        OBVIOUS
      <3>1. Len(s) + x[1] = Len(s) + y[1] /\ x[2] = y[2]
        OBVIOUS
      <3>2. x[1] = y[1]
        BY <1>1, <1>3, <3>1
      <3> QED BY <1>1, <3>1, <3>2
    <2>3. \A z \in T : \E x \in Letters(t) : f[x] = z
      OBVIOUS
    <2> QED BY <2>1, <2>2, <2>3 DEF Bijection, Injection, Surjection, IsInjective
  <1>5. IsFiniteSet(T) /\ Cardinality(T) = Cardinality(Letters(t))
    <2>1. ExistsBijection(Letters(t), T)
      BY <1>4 DEF ExistsBijection
    <2> HIDE DEF T, f
    <2> QED BY <2>1, LettersFinite, FS_Bijection
  <1>6. Letters(s) \cap T = {}
    <2>1. \A z \in T : z[1] > Len(s)
      BY <1>1, <1>3
    <2> HIDE DEF T
    <2> QED BY <1>2, <1>3, <2>1
  <1>7. Letters(s \o t) = Letters(s) \cup T
    BY ConcatLetters
  <1> HIDE DEF T
  <1>8. Cardinality(Letters(s \o t)) = Cardinality(Letters(s)) + Cardinality(Letters(t))
    <2>1. /\ Cardinality(Letters(s) \cup T) =
                Cardinality(Letters(s)) + Cardinality(T) - Cardinality(Letters(s) \cap T)
      BY <1>5, LettersFinite, FS_Union
    <2>2. Cardinality({}) = 0
      BY FS_EmptySet
    <2>3. Cardinality(Letters(s)) \in Nat /\ Cardinality(Letters(t)) \in Nat
      BY LettersFinite, FS_CardinalityType
    <2> DEFINE cs == Cardinality(Letters(s))
               ct == Cardinality(Letters(t))
               c == Cardinality(Letters(s) \cup T)
    <2>4. c = cs + ct - 0
      BY <1>5, <1>6, <2>1, <2>2
    <2>5. cs \in Nat /\ ct \in Nat
      BY <2>3
    <2> HIDE DEF cs, ct, c
    <2>6. c = cs + ct
      BY <2>4, <2>5
    <2> QED BY <1>7, <2>6 DEF cs, ct, c
  <1>9. Cardinality(Letters(s)) \in Nat /\ Cardinality(Letters(t)) \in Nat
    BY LettersFinite, FS_CardinalityType
  <1> QED
    BY <1>3, <1>8, <1>9 DEF TextLen

\* The empty word is a text without letters.
LEMMA EmptyText == <<Empty>> \in Seq(Word) /\ TextLen(<<Empty>>) = 0
  <1>1. Letters(<<Empty>>) = {}
    BY MigrationsAssumption DEF Letters
  <1>2. Len(<<Empty>>) = 1
    OBVIOUS
  <1> QED
    <2>1. TextLen(<<Empty>>) = Cardinality({}) + 1 - 1
      BY <1>1, <1>2 DEF TextLen
    <2>2. TextLen(<<Empty>>) = 0
      BY <2>1, FS_EmptySet
    <2> QED BY <2>2, MigrationsAssumption

\* A text is what is before a cut, in it and after it.
LEMMA CutParts ==
    ASSUME NEW s \in Seq(Word), NEW m \in 1..Len(s), NEW n \in m..Len(s)
    PROVE  s = (SubSeq(s, 1, m - 1) \o SubSeq(s, m, n)) \o SubSeq(s, n + 1, Len(s))
  <1>1. Len(s) \in Nat /\ m \in Nat /\ n \in Nat
    BY TextIs
  <1>2. SubSeq(s, 1, m - 1) \o SubSeq(s, m, n) = SubSeq(s, 1, n)
    <2>1. /\ 1 \in 1..(Len(s) + 1) /\ m - 1 \in (1 - 1)..Len(s) /\ n \in (m - 1)..Len(s)
          /\ (m - 1) + 1 = m
      BY <1>1
    <2> QED BY <2>1, ConcatAdjacentSubSeq
  <1>3. SubSeq(s, 1, n) \o SubSeq(s, n + 1, Len(s)) = SubSeq(s, 1, Len(s))
    <2>1. 1 \in 1..(Len(s) + 1) /\ n \in (1 - 1)..Len(s) /\ Len(s) \in n..Len(s)
      BY <1>1
    <2> QED BY <2>1, ConcatAdjacentSubSeq
  <1>4. SubSeq(s, 1, Len(s)) = s
    BY SubSeqFull
  <1> QED
    BY <1>2, <1>3, <1>4

\* What is cut out of a text is not longer.
LEMMA CutLen ==
    ASSUME NEW s \in Seq(Word), NEW m \in 1..Len(s), NEW n \in m..Len(s)
    PROVE  /\ SubSeq(s, m, n) \in Seq(Word) /\ Len(SubSeq(s, m, n)) = n - m + 1
           /\ TextLen(SubSeq(s, m, n)) <= TextLen(s)
  <1> DEFINE a == SubSeq(s, 1, m - 1)
             b == SubSeq(s, m, n)
             c == SubSeq(s, n + 1, Len(s))
  <1>1. Len(s) \in Nat /\ m \in Nat /\ n \in Nat
    BY TextIs
  <1>2. a \in Seq(Word) /\ b \in Seq(Word) /\ c \in Seq(Word) /\ Len(b) = n - m + 1
    BY <1>1, SubSeqProperties
  <1>5. s = (a \o b) \o c
    BY CutParts
  <1> HIDE DEF a, b, c
  <1>6. TextLen(s) = TextLen(a) + TextLen(b) + 1 + TextLen(c) + 1
    <2> DEFINE ab == a \o b
    <2>1. ab \in Seq(Word) /\ TextLen(ab) = TextLen(a) + TextLen(b) + 1
      BY <1>2, ConcatLen
    <2>2. s = ab \o c
      BY <1>5
    <2> HIDE DEF ab
    <2>3. TextLen(ab \o c) = TextLen(ab) + TextLen(c) + 1
      BY <1>2, <2>1, ConcatLen
    <2>4. TextLen(s) = TextLen(ab) + TextLen(c) + 1
      BY <2>2, <2>3
    <2> QED BY <2>1, <2>4
  <1>7. /\ TextLen(a) \in Int /\ TextLen(b) \in Int /\ TextLen(c) \in Int
        /\ TextLen(a) >= -1 /\ TextLen(c) >= -1
    <2>1. Len(a) \in Nat /\ Len(c) \in Nat
      BY <1>2, TextIs
    <2>2. /\ TextLen(a) \in Int /\ TextLen(b) \in Int /\ TextLen(c) \in Int
          /\ TextLen(a) >= Len(a) - 1 /\ TextLen(c) >= Len(c) - 1
      BY <1>2, TextLenInt
    <2> QED BY <2>1, <2>2
  <1>8. TextLen(b) <= TextLen(s)
    BY <1>6, <1>7
  <1> QED
    BY <1>2, <1>8 DEF b

\* Finitely many numbers have a least one and a greatest one.
LEMMA Ends ==
    ASSUME NEW n \in Nat, NEW I, I \subseteq 1..n, I # {}
    PROVE  /\ Min(I) \in I /\ \A i \in I : Min(I) <= i
           /\ Max(I) \in I /\ \A i \in I : Max(I) >= i
  <1> DEFINE R == OpToRel(<, Nat)
             J == {n - i : i \in I}
  <1>1. IsWellFoundedOn(R, Nat)
    BY NatLessThanWellFounded
  <1>2. \A T : T \subseteq Nat /\ T # {} => \E x \in T : \A y \in T : x <= y
    <2> SUFFICES ASSUME NEW T, T \subseteq Nat, T # {} PROVE \E x \in T : \A y \in T : x <= y
      OBVIOUS
    <2>1. PICK x \in T : \A y \in T : ~(<<y, x>> \in R)
      <3> HIDE DEF R
      <3> QED BY <1>1, WFMin
    <2>2. \A y \in T : ~(y < x)
      BY <2>1 DEF OpToRel
    <2> QED BY <2>2
  <1>3. \E x \in I : \A y \in I : x <= y
    <2>1. I \subseteq Nat
      OBVIOUS
    <2> QED BY <1>2, <2>1
  <1>4. \E x \in I : \A y \in I : x >= y
    <2>1. J \subseteq Nat /\ J # {}
      <3>1. \A i \in I : n - i \in Nat
        OBVIOUS
      <3> QED BY <3>1
    <2>2. PICK x \in J : \A y \in J : x <= y
      <3> HIDE DEF J
      <3> QED BY <1>2, <2>1
    <2>3. PICK i \in I : x = n - i
      BY <2>2
    <2>4. \A j \in I : n - i <= n - j
      BY <2>2, <2>3
    <2>5. \A j \in I : i >= j
      <3>1. \A j \in I : j \in Int /\ n \in Int /\ i \in Int
        OBVIOUS
      <3> QED BY <2>4, <3>1
    <2> QED BY <2>5
  <1> QED
    BY <1>3, <1>4, Zenon DEF Min, Max

\* A text without the empty words at its ends: all of it that is not empty.
LEMMA TrimmedIs ==
    ASSUME NEW s \in Seq(Word)
    PROVE  \/ Words(s) = {} /\ Trimmed(s) = <<Empty>>
           \/ \E m \in 1..Len(s) : \E n \in m..Len(s) :
                 Trimmed(s) = SubSeq(s, m, n) /\ Words(s) \subseteq m..n
  <1> DEFINE I == Words(s)
  <1>1. Len(s) \in Nat /\ I \subseteq 1..Len(s)
    BY TextIs DEF Words
  <1>2. /\ SelectInSeq(s, IsWord) = IF I # {} THEN Min(I) ELSE 0
        /\ SelectLastInSeq(s, IsWord) = IF I # {} THEN Max(I) ELSE 0
    BY Zenon DEF SelectInSeq, SelectLastInSeq, Words
  <1> HIDE DEF I
  <1>3. CASE I = {}
    BY <1>2, <1>3 DEF Trimmed, I
  <1>4. CASE I # {}
    <2>1. /\ Min(I) \in I /\ \A i \in I : Min(I) <= i
          /\ Max(I) \in I /\ \A i \in I : Max(I) >= i
      BY <1>1, <1>4, Ends
    <2>2. Trimmed(s) = SubSeq(s, Min(I), Max(I))
      <3>1. Min(I) # 0
        BY <1>1, <2>1
      <3> QED BY <1>2, <1>4, <3>1 DEF Trimmed
    <2> DEFINE m == Min(I)
               n == Max(I)
    <2> HIDE DEF m, n
    <2>3. m \in I /\ n \in I /\ \A i \in I : m <= i /\ i <= n
      BY <1>1, <2>1 DEF m, n
    <2>4. m \in 1..Len(s) /\ n \in m..Len(s) /\ I \subseteq m..n
      BY <1>1, <2>3
    <2>5. Trimmed(s) = SubSeq(s, m, n)
      BY <2>2 DEF m, n
    <2> QED BY <2>4, <2>5 DEF I
  <1> QED
    BY <1>3, <1>4

\* Trimming does not make a text longer.
LEMMA TrimmedLen ==
    ASSUME NEW s \in Seq(Word)
    PROVE  /\ Trimmed(s) \in Seq(Word) /\ Len(Trimmed(s)) >= 1
           /\ s # <<>> => TextLen(Trimmed(s)) <= TextLen(s)
  <1>1. CASE Trimmed(s) = <<Empty>>
    <2>1. s # <<>> => Len(s) >= 1
      BY TextIs
    <2> QED BY <1>1, <2>1, EmptyText, TextLenInt
  <1>2. CASE Trimmed(s) # <<Empty>>
    <2>1. PICK m \in 1..Len(s) : \E n \in m..Len(s) : Trimmed(s) = SubSeq(s, m, n)
      BY <1>2, TrimmedIs
    <2>2. PICK n \in m..Len(s) : Trimmed(s) = SubSeq(s, m, n)
      BY <2>1
    <2> QED BY <2>2, CutLen, TextIs
  <1> QED
    BY <1>1, <1>2

\* A word's number and itself.
LEMMA NumberedIs ==
    ASSUME NEW s \in Seq(Word)
    PROVE  /\ \A x \in Numbered(s) : x[1] \in Nat /\ x = <<x[1], x[2]>>
           /\ IsFiniteSet(Words(s)) /\ Cardinality(Words(s)) \in Nat
  <1>1. IsFiniteSet(1..Len(s)) /\ Words(s) \subseteq 1..Len(s)
    BY FS_Interval, TextIs DEF Words
  <1>2. IsFiniteSet(Words(s))
    BY <1>1, FS_Subset
  <1>3. \A i \in Words(s) : Cardinality(Words(s) \cap (1..i)) \in Nat
    BY <1>2, FS_Intersection, FS_CardinalityType
  <1>4. Cardinality(Words(s)) \in Nat
    BY <1>2, FS_CardinalityType
  <1>5. ASSUME NEW x \in Numbered(s) PROVE x[1] \in Nat /\ x = <<x[1], x[2]>>
    <2>1. PICK i \in Words(s) : x = <<Cardinality(Words(s) \cap (1..i)), s[i]>>
      BY <1>5 DEF Numbered
    <2> QED BY <1>3, <2>1
  <1> QED
    BY <1>2, <1>4, <1>5

\* The words of two texts one after the other.
LEMMA ConcatNumbered ==
    ASSUME NEW s \in Seq(Word), NEW t \in Seq(Word)
    PROVE  Numbered(s \o t) = Numbered(s)
              \cup {<<Cardinality(Words(s)) + x[1], x[2]>> : x \in Numbered(t)}
  <1> DEFINE c == s \o t
             m == Len(s)
             n == Len(t)
             k == Cardinality(Words(s))
             T == {<<k + x[1], x[2]>> : x \in Numbered(t)}
  <1>1. /\ c \in Seq(Word) /\ Len(c) = m + n /\ m \in Nat /\ n \in Nat
        /\ \A i \in 1..(m + n) : c[i] = IF i <= m THEN s[i] ELSE t[i - m]
    BY ConcatProperties, TextIs
  <1> HIDE DEF c
  <1>2. \A i \in 1..(m + n) : i \in Words(c) <=>
            IF i <= m THEN i \in Words(s) ELSE i - m \in Words(t)
    <2> SUFFICES ASSUME NEW i \in 1..(m + n)
                 PROVE  i \in Words(c) <=>
                            IF i <= m THEN i \in Words(s) ELSE i - m \in Words(t)
      OBVIOUS
    <2>1. i \in Words(c) <=> IsWord(c[i])
      BY <1>1 DEF Words
    <2>2. i <= m => (i \in Words(s) <=> IsWord(c[i]))
      BY <1>1 DEF Words
    <2>3. ~(i <= m) => (i - m \in Words(t) <=> IsWord(c[i]))
      BY <1>1 DEF Words
    <2> QED BY <2>1, <2>2, <2>3
  <1>3. Words(c) \subseteq 1..(m + n) /\ Words(s) \subseteq 1..m /\ Words(t) \subseteq 1..n
    BY <1>1 DEF Words
  <1>4. ASSUME NEW i \in 1..m PROVE Words(c) \cap (1..i) = Words(s) \cap (1..i)
    <2>1. \A j \in 1..i : j \in 1..(m + n) /\ j <= m
      BY <1>1
    <2> QED BY <1>2, <2>1
  <1>5. ASSUME NEW i \in 1..n
        PROVE  Cardinality(Words(c) \cap (1..(m + i))) = k + Cardinality(Words(t) \cap (1..i))
    <2> DEFINE A == Words(t) \cap (1..i)
               B == {m + j : j \in A}
    <2>1. Words(c) \cap (1..(m + i)) = Words(s) \cup B
      <3>1. ASSUME NEW j \in Words(c) \cap (1..(m + i)) PROVE j \in Words(s) \cup B
        <4>1. j \in 1..(m + n) /\ (j <= m => j \in Words(s))
              /\ (~(j <= m) => j - m \in Words(t))
          BY <1>2, <1>3
        <4>2. ~(j <= m) => j - m \in 1..i /\ m + (j - m) = j
          BY <1>1
        <4>3. ~(j <= m) => j - m \in A
          BY <4>1, <4>2
        <4> QED BY <4>1, <4>2, <4>3
      <3>2. ASSUME NEW j \in Words(s) PROVE j \in Words(c) \cap (1..(m + i))
        <4>1. j \in 1..m /\ j \in 1..(m + n) /\ j <= m /\ j \in 1..(m + i)
          BY <1>1, <1>3
        <4> QED BY <1>2, <4>1
      <3>3. ASSUME NEW j \in A PROVE m + j \in Words(c) \cap (1..(m + i))
        <4>1. m + j \in 1..(m + n) /\ ~(m + j <= m) /\ (m + j) - m = j /\ m + j \in 1..(m + i)
          BY <1>1
        <4> QED BY <1>2, <4>1
      <3>4. B \subseteq Words(c) \cap (1..(m + i))
        BY <3>3
      <3> HIDE DEF B
      <3> QED BY <3>1, <3>2, <3>4
    <2>2. IsFiniteSet(A) /\ A \subseteq Nat
      <3>1. IsFiniteSet(Words(t))
        BY NumberedIs
      <3>2. A \subseteq Nat
        BY <1>3
      <3> QED BY <3>1, <3>2, FS_Intersection
    <2>3. IsFiniteSet(B) /\ Cardinality(B) = Cardinality(A)
      <3> HIDE DEF A
      <3> QED BY <1>1, <2>2, Shifted
    <2>4. Words(s) \cap B = {}
      BY <1>1, <1>3
    <2>5. Cardinality(Words(s) \cup B) = k + Cardinality(B) - Cardinality(Words(s) \cap B)
      <3> HIDE DEF B
      <3> QED BY <2>3, NumberedIs, FS_Union
    <2>6. Cardinality({}) = 0
      BY FS_EmptySet
    <2>7. k \in Nat /\ Cardinality(A) \in Nat
      <3> HIDE DEF A
      <3> QED BY <2>2, NumberedIs, FS_CardinalityType
    <2> HIDE DEF A, B, k
    <2>8. Cardinality(Words(s) \cup B) = k + Cardinality(A)
      <3>1. Cardinality(Words(s) \cup B) = k + Cardinality(A) - 0
        BY <2>3, <2>4, <2>5, <2>6
      <3> DEFINE p == Cardinality(Words(s) \cup B)
                 q == Cardinality(A)
      <3> HIDE DEF p, q
      <3>2. p = k + q
        BY <2>7, <3>1 DEF p, q
      <3> QED BY <3>2 DEF p, q
    <2> QED BY <2>1, <2>8 DEF A
  <1>6. ASSUME NEW x \in Numbered(c) PROVE x \in Numbered(s) \cup T
    <2>1. PICK i \in Words(c) : x = <<Cardinality(Words(c) \cap (1..i)), c[i]>>
      BY <1>6 DEF Numbered
    <2>2. CASE i <= m
      <3>1. i \in 1..m /\ i \in Words(s) /\ c[i] = s[i]
        BY <1>1, <1>2, <1>3, <2>2
      <3>2. x = <<Cardinality(Words(s) \cap (1..i)), s[i]>>
        BY <1>4, <2>1, <3>1
      <3> QED BY <3>1, <3>2 DEF Numbered
    <2>3. CASE ~(i <= m)
      <3> DEFINE j == i - m
      <3>1. j \in 1..n /\ m + j = i /\ j \in Words(t) /\ c[i] = t[j]
        BY <1>1, <1>2, <1>3, <2>3
      <3> HIDE DEF j
      <3> DEFINE y == <<Cardinality(Words(t) \cap (1..j)), t[j]>>
      <3>2. y \in Numbered(t)
        BY <3>1 DEF Numbered
      <3>3. x = <<k + Cardinality(Words(t) \cap (1..j)), t[j]>>
        <4> HIDE DEF k
        <4> QED BY <1>5, <2>1, <3>1
      <3>4. x = <<k + y[1], y[2]>>
        BY <3>3
      <3> HIDE DEF y
      <3> QED BY <3>2, <3>4
    <2> QED BY <2>2, <2>3
  <1>7. ASSUME NEW x \in Numbered(s) PROVE x \in Numbered(c)
    <2>1. PICK i \in Words(s) : x = <<Cardinality(Words(s) \cap (1..i)), s[i]>>
      BY <1>7 DEF Numbered
    <2>2. i \in 1..m /\ i \in 1..(m + n) /\ i <= m
      BY <1>1, <1>3
    <2>3. i \in Words(c) /\ c[i] = s[i] /\ Words(c) \cap (1..i) = Words(s) \cap (1..i)
      BY <1>1, <1>2, <1>4, <2>2
    <2> QED BY <2>1, <2>3 DEF Numbered
  <1>8. ASSUME NEW y \in Numbered(t) PROVE <<k + y[1], y[2]>> \in Numbered(c)
    <2>1. PICK i \in Words(t) : y = <<Cardinality(Words(t) \cap (1..i)), t[i]>>
      BY <1>8 DEF Numbered
    <2>2. i \in 1..n /\ m + i \in 1..(m + n) /\ ~(m + i <= m) /\ (m + i) - m = i
      BY <1>1, <1>3
    <2>3. m + i \in Words(c) /\ c[m + i] = t[i]
      BY <1>1, <1>2, <2>2
    <2>4. <<k + y[1], y[2]>> = <<Cardinality(Words(c) \cap (1..(m + i))), c[m + i]>>
      <3> HIDE DEF k
      <3> QED BY <1>5, <2>1, <2>2, <2>3
    <2> QED BY <2>3, <2>4 DEF Numbered
  <1>9. T \subseteq Numbered(c)
    BY <1>8
  <1> HIDE DEF T
  <1>10. Numbered(c) = Numbered(s) \cup T
    BY <1>6, <1>7, <1>9
  <1> QED
    BY <1>10 DEF T, c

\* Without words nothing is numbered.
LEMMA NoWords ==
    ASSUME NEW s \in Seq(Word), Words(s) = {}
    PROVE  /\ Numbered(s) = {}
           /\ \A t \in Seq(Word) : Numbered(s \o t) = Numbered(t) /\ Numbered(t \o s) = Numbered(t)
  <1>1. Numbered(s) = {} /\ Cardinality(Words(s)) = 0
    BY FS_EmptySet DEF Numbered
  <1>2. ASSUME NEW t \in Seq(Word)
        PROVE  Numbered(s \o t) = Numbered(t) /\ Numbered(t \o s) = Numbered(t)
    <2>1. \A x \in Numbered(t) : <<0 + x[1], x[2]>> = x
      BY NumberedIs
    <2>2. {<<0 + x[1], x[2]>> : x \in Numbered(t)} = Numbered(t)
      BY <2>1
    <2>3. Numbered(s \o t) = Numbered(t)
      <3>1. Numbered(s \o t) = Numbered(s)
                \cup {<<Cardinality(Words(s)) + x[1], x[2]>> : x \in Numbered(t)}
        BY ConcatNumbered
      <3>2. Numbered(s \o t) = {} \cup {<<0 + x[1], x[2]>> : x \in Numbered(t)}
        BY <1>1, <3>1, Zenon
      <3> QED BY <2>2, <3>2, Zenon
    <2>4. Numbered(t \o s) = Numbered(t)
      <3>1. Numbered(t \o s) = Numbered(t)
                \cup {<<Cardinality(Words(t)) + x[1], x[2]>> : x \in Numbered(s)}
        BY ConcatNumbered
      <3> QED BY <1>1, <3>1
    <2> QED BY <2>3, <2>4
  <1> QED
    BY <1>1, <1>2

\* Trimming keeps the words.
LEMMA TrimmedWords ==
    ASSUME NEW s \in Seq(Word)
    PROVE  Numbered(Trimmed(s)) = Numbered(s)
  <1>1. CASE Words(s) = {} /\ Trimmed(s) = <<Empty>>
    <2>1. Words(<<Empty>>) = {}
      BY DEF Words, IsWord
    <2>2. Numbered(<<Empty>>) = {} /\ Numbered(s) = {}
      BY <1>1, <2>1, NoWords, EmptyText
    <2> QED BY <1>1, <2>2
  <1>2. ASSUME NEW m \in 1..Len(s), NEW n \in m..Len(s),
               Trimmed(s) = SubSeq(s, m, n), Words(s) \subseteq m..n
        PROVE  Numbered(Trimmed(s)) = Numbered(s)
    <2> DEFINE a == SubSeq(s, 1, m - 1)
               b == SubSeq(s, m, n)
               c == SubSeq(s, n + 1, Len(s))
    <2>1. Len(s) \in Nat /\ m \in Nat /\ n \in Nat
      BY TextIs
    <2>2. /\ a \in Seq(Word) /\ b \in Seq(Word) /\ c \in Seq(Word)
          /\ Len(a) = m - 1 /\ \A i \in 1..Len(a) : a[i] = s[i]
          /\ Len(c) = Len(s) - n /\ \A i \in 1..Len(c) : c[i] = s[n + i]
      BY <2>1, SubSeqProperties
    <2>3. s = (a \o b) \o c
      BY CutParts
    <2> HIDE DEF a, b, c
    <2>4. Words(a) = {}
      <3>1. ASSUME NEW i \in Words(a) PROVE FALSE
        <4>1. i \in Words(s) /\ i < m
          BY <2>1, <2>2 DEF Words
        <4> QED BY <1>2, <2>1, <4>1
      <3> QED BY <3>1
    <2>5. Words(c) = {}
      <3>1. ASSUME NEW i \in Words(c) PROVE FALSE
        <4>1. n + i \in Words(s) /\ n + i > n
          BY <2>1, <2>2 DEF Words
        <4> QED BY <1>2, <2>1, <4>1
      <3> QED BY <3>1
    <2>6. a \o b \in Seq(Word)
      BY <2>2, ConcatProperties
    <2>7. Numbered((a \o b) \o c) = Numbered(a \o b)
      BY <2>2, <2>5, <2>6, NoWords
    <2>8. Numbered(a \o b) = Numbered(b)
      BY <2>2, <2>4, NoWords
    <2> QED BY <1>2, <2>3, <2>7, <2>8 DEF b
  <1> QED
    BY <1>1, <1>2, TrimmedIs

-----------------------------------------------------------------------------
(***************************************************************************)
(* The kept columns, by revision.                                          *)
(***************************************************************************)
\* The groups that a revision's schema consists of.
GroupsAt == [r \in 0..9 |->
    CASE r = 0 -> {}
      [] r = 1 -> {0, 1, 4, 8}
      [] r = 2 -> {0, 2, 4, 8}
      [] r = 3 -> {0, 2, 4, 6, 8}
      [] r = 4 -> {0, 2, 5, 6, 8}
      [] r = 5 -> {0, 2, 5, 6, 8, 11}
      [] r = 6 -> {0, 2, 5, 6, 8, 9, 11}
      [] r = 7 -> {0, 2, 5, 6, 7, 8, 9, 11}
      [] r = 8 -> {0, 2, 3, 5, 6, 7, 8, 9, 10, 11}
      [] OTHER -> {0, 2, 3, 5, 6, 7, 9, 10, 11}]

\* All columns that there ever are.
Known == Lasting \cup ContactPhone \cup ContactName \cup CompanyNumbers \cup NameParts
           \cup FullName \cup Phone \cup AvatarKey \cup ApiSession \cup RateOfDay
           \cup CurrencyOfDay \cup ScheduleTable

\* A schema has the columns of its groups.
LEMMA SchemaGroups ==
    \A r \in 0..9 : \A c : c \in SchemaAt[r] <=> c \in Known /\ Group(c) \in GroupsAt[r]
  <1> USE InitialIs, LastingIsApart, Groups
  <1>0. /\ GroupsAt[0] = {} /\ GroupsAt[1] = {0, 1, 4, 8} /\ GroupsAt[2] = {0, 2, 4, 8}
        /\ GroupsAt[3] = {0, 2, 4, 6, 8} /\ GroupsAt[4] = {0, 2, 5, 6, 8}
        /\ GroupsAt[5] = {0, 2, 5, 6, 8, 11} /\ GroupsAt[6] = {0, 2, 5, 6, 8, 9, 11}
        /\ GroupsAt[7] = {0, 2, 5, 6, 7, 8, 9, 11}
        /\ GroupsAt[8] = {0, 2, 3, 5, 6, 7, 8, 9, 10, 11}
        /\ GroupsAt[9] = {0, 2, 3, 5, 6, 7, 9, 10, 11}
    BY DEF GroupsAt
  <1> DEFINE Is(r) == \A c : c \in SchemaAt[r] <=> c \in Known /\ Group(c) \in GroupsAt[r]
  <1>1. Is(0)
    BY <1>0, SchemasAre
  <1>2. Is(1)
    BY <1>0, SchemasAre DEF Known
  <1>3. Is(2)
    BY <1>0, <1>2, SchemasAre DEF Known
  <1>4. Is(3)
    BY <1>0, <1>3, SchemasAre DEF Known
  <1>5. Is(4)
    BY <1>0, <1>4, SchemasAre DEF Known
  <1>6. Is(5)
    BY <1>0, <1>5, SchemasAre DEF Known
  <1>7. Is(6)
    BY <1>0, <1>6, SchemasAre DEF Known
  <1>8. Is(7)
    BY <1>0, <1>7, SchemasAre DEF Known
  <1>9. Is(8)
    BY <1>0, <1>8, SchemasAre DEF Known
  <1>10. Is(9)
    BY <1>0, <1>9, SchemasAre DEF Known
  <1> HIDE DEF Is
  <1>11. \A r \in 0..9 : Is(r)
    BY <1>1, <1>2, <1>3, <1>4, <1>5, <1>6, <1>7, <1>8, <1>9, <1>10
  <1> QED
    BY <1>11 DEF Is

\* The revision that brings a kept column, and the last one that has it.
Since(t, c) ==
    CASE t = "company" /\ c = "contact_phone" -> 1
      [] t = "company" /\ c = "contact_name" -> 2
      [] t = "employee_profile" /\ c \in {"first_name", "last_name", "patronymic"} -> 1
      [] t = "employee_profile" /\ c \in {"rate_type", "currency"} -> 1
      [] t = "employee_profile" /\ c = "full_name" -> 4
      [] t = "employee_profile" /\ c = "phone" -> 3
      [] t = "employee_profile" /\ c = "avatar_key" -> 7
      [] t = "schedule" /\ c = "rate_type" -> 6
      [] OTHER -> 8

Until(t, c) ==
    CASE t = "company" /\ c = "contact_phone" -> 1
      [] t = "employee_profile" /\ c \in {"first_name", "last_name", "patronymic"} -> 3
      [] OTHER -> 9

MayBeNull(t, c) == t = "employee_profile" /\ c \in {"patronymic", "phone", "avatar_key"}

KeptTables == {"company", "employee_profile", "schedule"}

\* A column: its table, its name, whether it may be null.
LEMMA KnownAre == \A x \in Known : x = <<x[1], x[2], x[3]>>
  <1>1. \A t, S, n : \A x \in Cols(t, S, n) : x = <<x[1], x[2], x[3]>>
    BY DEF Cols
  <1> QED
    BY <1>1, Zenon
       DEF Known, Lasting, LastingOfCompany, LastingOfProfile, Untouched, CodeColumns,
           UserColumns, AdjustmentColumns, EntryColumns, CheckOut, ContactPhone, ContactName,
           CompanyNumbers, NameParts, FullName, Phone, AvatarKey, ApiSession, RateOfDay,
           CurrencyOfDay, ScheduleTable

\* The columns of a list, with what may be null.
LEMMA ColsHave == \A t, S, n, c : c \in S => <<t, c, n>> \in Cols(t, S, n)
  BY DEF Cols

\* What is in a list that is NOT NULL may not be null.
LEMMA FilledCols == \A t, u, S, c : <<t, c, TRUE>> \notin Cols(u, S, FALSE)
  BY DEF Cols

\* A kept column that may be null.
LEMMA NullColumns ==
    /\ <<"employee_profile", "patronymic", TRUE>> \in NameParts
    /\ <<"employee_profile", "phone", TRUE>> \in Phone
    /\ <<"employee_profile", "avatar_key", TRUE>> \in AvatarKey
  BY DEF NameParts, Phone, AvatarKey, Cols

\* The group of a kept column.
GroupOf(t, c) ==
    CASE t = "company" /\ c = "contact_phone" -> 1
      [] t = "company" /\ c = "contact_name" -> 2
      [] t = "employee_profile" /\ c \in {"first_name", "last_name", "patronymic"} -> 4
      [] t = "employee_profile" /\ c \in {"rate_type", "currency"} -> 0
      [] t = "employee_profile" /\ c = "full_name" -> 5
      [] t = "employee_profile" /\ c = "phone" -> 6
      [] t = "employee_profile" /\ c = "avatar_key" -> 7
      [] t = "schedule" /\ c = "rate_type" -> 9
      [] OTHER -> 10

\* The kept columns, one by one.
LEMMA KeptAre ==
    ASSUME NEW t \in KeptTables, NEW c \in Kept(t)
    PROVE  \/ t = "company" /\ c \in {"contact_phone", "contact_name"}
           \/ t = "employee_profile" /\ c \in {"first_name", "last_name", "patronymic"}
           \/ t = "employee_profile" /\ c \in {"rate_type", "currency", "full_name", "phone",
                                               "avatar_key"}
           \/ t = "schedule" /\ c \in {"rate_type", "currency"}
  BY DEF KeptTables, Kept

\* A kept column is of its group, which is there between its revisions.
LEMMA KeptGroups ==
    ASSUME NEW t \in KeptTables, NEW c \in Kept(t)
    PROVE  /\ \A n : Group(<<t, c, n>>) = GroupOf(t, c)
           /\ \A r \in 0..9 : GroupOf(t, c) \in GroupsAt[r] <=> Since(t, c) <= r /\ r <= Until(t, c)
  <1>1. \A n : Group(<<t, c, n>>) = GroupOf(t, c)
    <2> SUFFICES ASSUME NEW n PROVE Group(<<t, c, n>>) = GroupOf(t, c)
      OBVIOUS
    <2> DEFINE x == <<t, c, n>>
    <2>1. x[1] = t /\ x[2] = c
      OBVIOUS
    <2> HIDE DEF x
    <2>2. Group(x) = GroupOf(t, c)
      BY <2>1, KeptAre DEF Group, GroupOf
    <2> QED BY <2>2 DEF x
  <1>2. \A r \in 0..9 : GroupOf(t, c) \in GroupsAt[r] <=> Since(t, c) <= r /\ r <= Until(t, c)
    <2> SUFFICES ASSUME NEW r \in 0..9
                 PROVE  GroupOf(t, c) \in GroupsAt[r] <=> Since(t, c) <= r /\ r <= Until(t, c)
      OBVIOUS
    <2> DEFINE g == GroupOf(t, c)
               a == Since(t, c)
               b == Until(t, c)
    <2>1. \/ g = 1 /\ a = 1 /\ b = 1
          \/ g = 2 /\ a = 2 /\ b = 9
          \/ g = 4 /\ a = 1 /\ b = 3
          \/ g = 0 /\ a = 1 /\ b = 9
          \/ g = 5 /\ a = 4 /\ b = 9
          \/ g = 6 /\ a = 3 /\ b = 9
          \/ g = 7 /\ a = 7 /\ b = 9
          \/ g = 9 /\ a = 6 /\ b = 9
          \/ g = 10 /\ a = 8 /\ b = 9
      BY KeptAre DEF GroupOf, Since, Until
    <2> HIDE DEF g, a, b
    <2>2. g \in GroupsAt[r] <=> a <= r /\ r <= b
      <3>1. r = 0 \/ r = 1 \/ r = 2 \/ r = 3 \/ r = 4 \/ r = 5 \/ r = 6 \/ r = 7 \/ r = 8 \/ r = 9
        OBVIOUS
      <3> QED BY <2>1, <3>1 DEF GroupsAt
    <2> QED BY <2>2 DEF g, a, b
  <1> QED
    BY <1>1, <1>2

\* A kept column is known, and whether it may be null.
LEMMA KeptKnown ==
    ASSUME NEW t \in KeptTables, NEW c \in Kept(t)
    PROVE  /\ \E n : <<t, c, n>> \in Known
           /\ <<t, c, TRUE>> \in Known <=> MayBeNull(t, c)
  <1>1. <<t, c, TRUE>> \in Known => MayBeNull(t, c)
    <2> SUFFICES ASSUME <<t, c, TRUE>> \in Known, ~MayBeNull(t, c) PROVE FALSE
      OBVIOUS
    <2> DEFINE x == <<t, c, TRUE>>
    <2>1. /\ x \notin ContactPhone /\ x \notin ContactName /\ x \notin FullName
          /\ x \notin RateOfDay /\ x \notin CurrencyOfDay
      BY FilledCols, Zenon DEF ContactPhone, ContactName, FullName, RateOfDay, CurrencyOfDay
    <2>2. Group(x) = GroupOf(t, c)
      BY KeptGroups
    <2>3. x[1] = t /\ x[2] = c
      OBVIOUS
    <2>4. x \notin Lasting
      <3>1. x \notin Cols("company", CompanyNames, FALSE)
            /\ x \notin Cols("employee_profile", ProfileNames, FALSE)
        BY FilledCols, Zenon
      <3>2. x \notin Cols("company", {"logo"}, TRUE)
            /\ x \notin Cols("employee_profile", {"updated_at"}, TRUE)
        <4>1. c # "logo" /\ c # "updated_at"
          BY KeptAre
        <4>2. /\ x \in Cols("company", {"logo"}, TRUE) => x[2] \in {"logo"}
              /\ x \in Cols("employee_profile", {"updated_at"}, TRUE) => x[2] \in {"updated_at"}
          <5> HIDE DEF x
          <5> QED BY ColsAre, Zenon
        <4> HIDE DEF x
        <4> QED BY <2>3, <4>1, <4>2
      <3>3. x \notin Untouched
        <4>1. t \notin {"qr_session", "user", "adjustment", "time_entry"}
          BY DEF KeptTables
        <4> HIDE DEF x
        <4> QED BY <2>3, <4>1, UntouchedIs
      <3> HIDE DEF x
      <3> QED BY <3>1, <3>2, <3>3, Zenon DEF Lasting, LastingOfCompany, LastingOfProfile
    <2>5. Group(x) \notin {3, 6, 7, 8, 11}
      <3> HIDE DEF x
      <3> QED BY <2>2, KeptAre DEF GroupOf, MayBeNull
    <2>6. x \notin NameParts
      <3> DEFINE A == Cols("employee_profile", {"first_name", "last_name"}, FALSE)
                 B == Cols("employee_profile", {"patronymic"}, TRUE)
      <3>1. x \notin A
        BY FilledCols, Zenon
      <3>2. x \notin B
        <4>1. t = "employee_profile" => c # "patronymic"
          BY DEF MayBeNull
        <4>2. x \in B => x[1] = "employee_profile" /\ x[2] \in {"patronymic"}
          <5> HIDE DEF x
          <5> QED BY ColsAre, Zenon
        <4> HIDE DEF x, B
        <4> QED BY <2>3, <4>1, <4>2
      <3> HIDE DEF x, A, B
      <3> QED BY <3>1, <3>2 DEF NameParts, A, B
    <2>7. x \in Known
      OBVIOUS
    <2> HIDE DEF x
    <2> QED
      BY <2>1, <2>4, <2>5, <2>6, <2>7, Groups DEF Known
  <1>2. MayBeNull(t, c) => <<t, c, TRUE>> \in Known
    BY NullColumns DEF MayBeNull, Known
  <1>3. \E n : <<t, c, n>> \in Known
    <2>1. /\ <<"company", "contact_phone", FALSE>> \in ContactPhone
          /\ <<"company", "contact_name", FALSE>> \in ContactName
          /\ <<"employee_profile", "full_name", FALSE>> \in FullName
          /\ <<"schedule", "rate_type", FALSE>> \in RateOfDay
          /\ <<"schedule", "currency", FALSE>> \in CurrencyOfDay
      BY ColsHave DEF ContactPhone, ContactName, FullName, RateOfDay, CurrencyOfDay
    <2>2. /\ <<"employee_profile", "first_name", FALSE>> \in NameParts
          /\ <<"employee_profile", "last_name", FALSE>> \in NameParts
      BY ColsHave DEF NameParts
    <2>3. /\ <<"employee_profile", "rate_type", FALSE>> \in Lasting
          /\ <<"employee_profile", "currency", FALSE>> \in Lasting
      BY ColsHave DEF Lasting, LastingOfProfile, ProfileNames
    <2> DEFINE K == Known
    <2>4. /\ <<"company", "contact_phone", FALSE>> \in K
          /\ <<"company", "contact_name", FALSE>> \in K
          /\ <<"employee_profile", "full_name", FALSE>> \in K
          /\ <<"schedule", "rate_type", FALSE>> \in K
          /\ <<"schedule", "currency", FALSE>> \in K
          /\ <<"employee_profile", "first_name", FALSE>> \in K
          /\ <<"employee_profile", "last_name", FALSE>> \in K
          /\ <<"employee_profile", "rate_type", FALSE>> \in K
          /\ <<"employee_profile", "currency", FALSE>> \in K
          /\ <<"employee_profile", "patronymic", TRUE>> \in K
          /\ <<"employee_profile", "phone", TRUE>> \in K
          /\ <<"employee_profile", "avatar_key", TRUE>> \in K
      BY <2>1, <2>2, <2>3, NullColumns, Zenon DEF Known
    <2> HIDE DEF K
    <2>5. \E n : <<t, c, n>> \in K
      <3>1. \/ t = "company" /\ c = "contact_phone"
            \/ t = "company" /\ c = "contact_name"
            \/ t = "employee_profile" /\ c = "first_name"
            \/ t = "employee_profile" /\ c = "last_name"
            \/ t = "employee_profile" /\ c = "patronymic"
            \/ t = "employee_profile" /\ c = "rate_type"
            \/ t = "employee_profile" /\ c = "currency"
            \/ t = "employee_profile" /\ c = "full_name"
            \/ t = "employee_profile" /\ c = "phone"
            \/ t = "employee_profile" /\ c = "avatar_key"
            \/ t = "schedule" /\ c = "rate_type"
            \/ t = "schedule" /\ c = "currency"
        BY KeptAre
      <3> QED BY <2>4, <3>1, Zenon
    <2> QED BY <2>5 DEF K
  <1> QED
    BY <1>1, <1>2, <1>3

\* The kept columns of each revision.
LEMMA Columns ==
    ASSUME NEW t \in KeptTables, NEW c \in Kept(t), NEW r \in 0..9
    PROVE  /\ c \in ColumnsOf(t, SchemaAt[r]) <=> Since(t, c) <= r /\ r <= Until(t, c)
           /\ <<t, c, TRUE>> \in SchemaAt[r] <=>
                  Since(t, c) <= r /\ r <= Until(t, c) /\ MayBeNull(t, c)
  <1> DEFINE S == SchemaAt[r]
             there == Since(t, c) <= r /\ r <= Until(t, c)
  <1>1. \A n : <<t, c, n>> \in S <=> <<t, c, n>> \in Known /\ there
    BY SchemaGroups, KeptGroups
  <1>2. c \in ColumnsOf(t, S) <=> \E n : <<t, c, n>> \in S
    <2>1. ASSUME c \in ColumnsOf(t, S) PROVE \E n : <<t, c, n>> \in S
      <3>1. PICK x \in S : x[1] = t /\ x[2] = c
        BY <2>1 DEF ColumnsOf
      <3>2. x \in Known
        BY <3>1, SchemaGroups
      <3>3. x = <<t, c, x[3]>>
        BY <3>1, <3>2, KnownAre
      <3> QED BY <3>1, <3>3
    <2>2. ASSUME NEW n, <<t, c, n>> \in S PROVE c \in ColumnsOf(t, S)
      <3>1. <<t, c, n>>[1] = t /\ <<t, c, n>>[2] = c
        OBVIOUS
      <3> QED BY <2>2, <3>1 DEF ColumnsOf
    <2> QED BY <2>1, <2>2
  <1> QED
    BY <1>1, <1>2, KeptKnown

\* The groups that are added are new.
LEMMA AddsAreNew ==
    \A r \in 1..9 : /\ \A c \in UpAdds[r] : Group(c) \notin GroupsAt[r - 1]
                    /\ \A c \in DownAdds[r] : Group(c) \notin GroupsAt[r]
  <1> SUFFICES ASSUME NEW r \in 1..9
               PROVE  /\ \A c \in UpAdds[r] : Group(c) \notin GroupsAt[r - 1]
                      /\ \A c \in DownAdds[r] : Group(c) \notin GroupsAt[r]
    OBVIOUS
  <1>1. DownAdds[r] = UpDrops[r]
    BY DownIsUpBack
  <1>2. /\ GroupsAt[0] = {} /\ GroupsAt[1] = {0, 1, 4, 8} /\ GroupsAt[2] = {0, 2, 4, 8}
        /\ GroupsAt[3] = {0, 2, 4, 6, 8} /\ GroupsAt[4] = {0, 2, 5, 6, 8}
        /\ GroupsAt[5] = {0, 2, 5, 6, 8, 11} /\ GroupsAt[6] = {0, 2, 5, 6, 8, 9, 11}
        /\ GroupsAt[7] = {0, 2, 5, 6, 7, 8, 9, 11}
        /\ GroupsAt[9] = {0, 2, 3, 5, 6, 7, 9, 10, 11}
    BY DEF GroupsAt
  <1>3. CASE r \in {1, 2, 3}
    BY <1>1, <1>2, <1>3, RevisionsAre, Groups
  <1>4. CASE r \in {4, 5, 6}
    BY <1>1, <1>2, <1>4, RevisionsAre, Groups
  <1>5. CASE r \in {7, 8, 9}
    BY <1>1, <1>2, <1>5, RevisionsAre, Groups
  <1> QED
    BY <1>3, <1>4, <1>5

\* Columns of the same table and name are of one group.
LEMMA OneGroup == \A c, x : c[1] = x[1] /\ c[2] = x[2] => Group(c) = Group(x)
  <1> SUFFICES ASSUME NEW c, NEW x, c[1] = x[1], c[2] = x[2] PROVE Group(c) = Group(x)
    OBVIOUS
  <1> QED
    BY DEF Group

\* A revision's columns can be changed, up and down.
LEMMA SchemasChange ==
    ASSUME NEW r \in 1..9
    PROVE  /\ Changeable(SchemaAt[r - 1], UpDrops[r], UpAdds[r])
           /\ Changeable(SchemaAt[r], DownDrops[r], DownAdds[r])
  <1>1. \A c, x : <<c[1], c[2]>> = <<x[1], x[2]>> => Group(c) = Group(x)
    BY OneGroup
  <1>2. Changeable(SchemaAt[r - 1], UpDrops[r], UpAdds[r])
    <2>1. UpDrops[r] \subseteq SchemaAt[r - 1]
      BY UpgradesFit
    <2>2. \A c \in UpAdds[r], x \in SchemaAt[r - 1] : Group(c) # Group(x)
      <3>1. r - 1 \in 0..9
        OBVIOUS
      <3> QED BY <3>1, AddsAreNew, SchemaGroups
    <2> QED BY <1>1, <2>1, <2>2, Zenon DEF Changeable
  <1>3. Changeable(SchemaAt[r], DownDrops[r], DownAdds[r])
    <2>1. DownDrops[r] \subseteq SchemaAt[r]
      <3>1. DownDrops[r] = UpAdds[r]
        BY DownIsUpBack
      <3> QED BY <3>1, SchemaSteps
    <2>2. \A c \in DownAdds[r], x \in SchemaAt[r] : Group(c) # Group(x)
      <3>1. r \in 0..9
        OBVIOUS
      <3> QED BY <3>1, AddsAreNew, SchemaGroups
    <2> QED BY <1>1, <2>1, <2>2, Zenon DEF Changeable
  <1> QED
    BY <1>2, <1>3

\* The tables of the rows that are kept, by revision.
LEMMA TablesAre ==
    ASSUME NEW r \in 0..9
    PROVE  /\ "company" \in Tables(SchemaAt[r]) <=> r >= 1
           /\ "employee_profile" \in Tables(SchemaAt[r]) <=> r >= 1
           /\ "schedule" \in Tables(SchemaAt[r]) <=> r >= 5
  <1>1. \A t : t \in Tables(SchemaAt[r]) <=> \E c \in SchemaAt[r] : c[1] = t
    BY DEF Tables
  <1>2. r = 0 => SchemaAt[r] = {}
    BY SchemasAre
  <1> DEFINE a == <<"company", "id", FALSE>>
             b == <<"employee_profile", "id", FALSE>>
             d == <<"schedule", "id", FALSE>>
  <1>3. a \in Known /\ b \in Known /\ d \in Known
    <2>1. /\ a \in LastingOfCompany /\ b \in LastingOfProfile /\ d \in ScheduleTable
      BY ColsHave DEF LastingOfCompany, LastingOfProfile, ScheduleTable, CompanyNames, ProfileNames
    <2> HIDE DEF a, b, d
    <2> QED BY <2>1, Zenon DEF Known, Lasting
  <1>4. Group(a) = 0 /\ Group(b) = 0 /\ Group(d) = 11
    BY DEF Group
  <1>5. a[1] = "company" /\ b[1] = "employee_profile" /\ d[1] = "schedule"
    OBVIOUS
  <1> HIDE DEF a, b, d
  <1>6. r >= 1 => 0 \in GroupsAt[r]
    BY DEF GroupsAt
  <1>7. r >= 5 => 11 \in GroupsAt[r]
    BY DEF GroupsAt
  <1>8. /\ "company" \in Tables(SchemaAt[r]) <=> r >= 1
        /\ "employee_profile" \in Tables(SchemaAt[r]) <=> r >= 1
    BY <1>1, <1>2, <1>3, <1>4, <1>5, <1>6, SchemaGroups
  <1>9. r >= 5 => "schedule" \in Tables(SchemaAt[r])
    BY <1>1, <1>3, <1>4, <1>5, <1>7, SchemaGroups
  <1>10. ASSUME NEW c \in SchemaAt[r], c[1] = "schedule" PROVE r >= 5
    <2>1. Group(c) \in {9, 10, 11}
      BY <1>10 DEF Group
    <2>2. Group(c) \in GroupsAt[r]
      BY SchemaGroups
    <2>3. r < 5 => r = 0 \/ r = 1 \/ r = 2 \/ r = 3 \/ r = 4
      OBVIOUS
    <2> QED BY <2>1, <2>2, <2>3 DEF GroupsAt
  <1> QED
    BY <1>1, <1>8, <1>9, <1>10

\* Tables are dropped after those that refer to them.
LEMMA TablesDrop == ASSUME NEW r \in 1..9 PROVE Droppable(SchemaAt[r], DropOrder(r))
  <1>1. CASE r = 1
    <2> DEFINE order == <<"time_entry", "adjustment", "employee_profile", "api_session", "user",
                          "qr_session", "company">>
    <2>1. DropOrder(r) = order /\ Len(order) = 7
      BY <1>1 DEF DropOrder
    <2>2. "schedule" \notin Tables(SchemaAt[1])
      BY TablesAre
    <2> HIDE DEF order
    <2> SUFFICES ASSUME NEW i \in 1..7,
                        NEW t \in Tables(SchemaAt[1]) \ {order[j] : j \in 1..i},
                        <<t, order[i]>> \in Refers
                 PROVE  FALSE
      BY <1>1, <2>1, Zenon DEF Droppable
    <2> USE DEF order
    <2>3. \A j \in 1..i : t # order[j]
      OBVIOUS
    <2>4. t # "schedule"
      BY <2>2
    <2>5. i = 1 \/ i = 2 \/ i = 3 \/ i = 4 \/ i = 5 \/ i = 6 \/ i = 7
      OBVIOUS
    <2>6. /\ i = 3 => t # "time_entry" /\ t # "adjustment"
          /\ i = 5 => t # "employee_profile" /\ t # "api_session"
          /\ i = 7 => t # "user" /\ t # "qr_session"
      BY <2>3
    <2>7. /\ i = 1 => order[i] = "time_entry"
          /\ i = 2 => order[i] = "adjustment"
          /\ i = 3 => order[i] = "employee_profile"
          /\ i = 4 => order[i] = "api_session"
          /\ i = 5 => order[i] = "user"
          /\ i = 6 => order[i] = "qr_session"
          /\ i = 7 => order[i] = "company"
      OBVIOUS
    <2> HIDE DEF order
    <2> QED BY <2>4, <2>5, <2>6, <2>7 DEF Refers
  <1>2. CASE r = 5
    <2>1. DropOrder(r) = <<"schedule">>
      BY <1>2 DEF DropOrder
    <2>2. \A t : <<t, "schedule">> \notin Refers
      BY DEF Refers
    <2> QED BY <2>1, <2>2 DEF Droppable
  <1>3. CASE r # 1 /\ r # 5
    BY <1>3 DEF DropOrder, Droppable
  <1> QED
    BY <1>1, <1>2, <1>3

\* The kept columns of a table at a revision.
Span(t, r) == {c \in Kept(t) : Since(t, c) <= r /\ r <= Until(t, c)}

Value == Seq(Word) \cup {p[1] : p \in Pays} \cup {p[2] : p \in Pays} \cup {Null, "phone", "key"}

TextColumns == {"contact_phone", "contact_name", "full_name", "first_name", "last_name"}

\* What a column may hold.
Holds(t, c, v) ==
    /\ v \in Value
    /\ c \in TextColumns => v \in Seq(Word)
    /\ c = "patronymic" => v \in Seq(Word) \cup {Null}
    /\ v = Null => MayBeNull(t, c)

\* And what of it is not too long.
HasRoom(c, v) == v # Null /\ c \in DOMAIN Size => TextLen(v) <= Size[c]

GoodRow(row, t, r) ==
    /\ DOMAIN row = Span(t, r)
    /\ \A c \in DOMAIN row : Holds(t, c, row[c]) /\ HasRoom(c, row[c])

\* A row's columns are those of its table's span.
LEMMA SpanIs ==
    ASSUME NEW t \in KeptTables, NEW r \in 0..9
    PROVE  Kept(t) \cap ColumnsOf(t, SchemaAt[r]) = Span(t, r)
  BY Columns DEF Span

\* What fits: nothing is NULL that may not be, nothing is too long.
LEMMA FitsIs ==
    ASSUME NEW t \in KeptTables, NEW r \in 0..9, NEW row, DOMAIN row = Span(t, r)
    PROVE  Fits(row, t, SchemaAt[r]) <=>
               \A c \in DOMAIN row : (row[c] = Null => MayBeNull(t, c)) /\ HasRoom(c, row[c])
  <1>1. \A c \in DOMAIN row : <<t, c, TRUE>> \in SchemaAt[r] <=> MayBeNull(t, c)
    BY Columns DEF Span
  <1> QED
    BY <1>1 DEF Fits, HasRoom

\* The column of a row that has been moved.
LEMMA MovedIs ==
    ASSUME NEW t \in KeptTables, NEW r \in 0..9, NEW row, NEW filled
    PROVE  LET x == Moved(row, t, SchemaAt[r], filled)
           IN /\ DOMAIN x = Span(t, r)
              /\ \A c \in Span(t, r) : x[c] = IF c \in DOMAIN filled THEN filled[c]
                                              ELSE IF c \in DOMAIN row THEN row[c] ELSE Null
              /\ (\A c \in Span(t, r) : x[c] \in Value) => x # NoRow
  <1> DEFINE x == Moved(row, t, SchemaAt[r], filled)
  <1>1. /\ x = [c \in Span(t, r) |-> x[c]]
        /\ \A c \in Span(t, r) : x[c] = IF c \in DOMAIN filled THEN filled[c]
                                        ELSE IF c \in DOMAIN row THEN row[c] ELSE Null
    BY SpanIs DEF Moved
  <1> HIDE DEF x
  <1>2. ASSUME \A c \in Span(t, r) : x[c] \in Value PROVE x # NoRow
    <2>1. x \in [Span(t, r) -> Value]
      BY <1>1, <1>2
    <2>2. Span(t, r) \in SUBSET Kept(t)
      BY DEF Span
    <2> QED BY <2>1, <2>2, RowsAssumption DEF Value, KeptTables
  <1>3. DOMAIN x = Span(t, r)
    BY <1>1
  <1> QED
    BY <1>1, <1>2, <1>3 DEF x

-----------------------------------------------------------------------------
(***************************************************************************)
(* Rows, one revision up or down.                                          *)
(***************************************************************************)
\* The columns that each table has at a revision.
LEMMA SpansAre ==
    ASSUME NEW r \in 0..9
    PROVE  /\ \A c : c \in Span("company", r) <=>
                  \/ c = "contact_phone" /\ r = 1
                  \/ c = "contact_name" /\ r >= 2
           /\ \A c : c \in Span("employee_profile", r) <=>
                  \/ c \in {"first_name", "last_name", "patronymic"} /\ r >= 1 /\ r <= 3
                  \/ c \in {"rate_type", "currency"} /\ r >= 1
                  \/ c = "full_name" /\ r >= 4
                  \/ c = "phone" /\ r >= 3
                  \/ c = "avatar_key" /\ r >= 7
           /\ \A c : c \in Span("schedule", r) <=>
                  \/ c = "rate_type" /\ r >= 6
                  \/ c = "currency" /\ r >= 8
  <1>1. \A c : c \in Span("company", r) <=>
            \/ c = "contact_phone" /\ r = 1
            \/ c = "contact_name" /\ r >= 2
    BY DEF Span, Since, Until, Kept
  <1>2. \A c : c \in Span("employee_profile", r) <=>
            \/ c \in {"first_name", "last_name", "patronymic"} /\ r >= 1 /\ r <= 3
            \/ c \in {"rate_type", "currency"} /\ r >= 1
            \/ c = "full_name" /\ r >= 4
            \/ c = "phone" /\ r >= 3
            \/ c = "avatar_key" /\ r >= 7
    BY DEF Span, Since, Until, Kept
  <1>3. \A c : c \in Span("schedule", r) <=>
            \/ c = "rate_type" /\ r >= 6
            \/ c = "currency" /\ r >= 8
    BY DEF Span, Since, Until, Kept
  <1> QED
    BY <1>1, <1>2, <1>3

\* The lengths of the columns.
LEMMA SizesAre ==
    /\ DOMAIN Size = {"contact_phone", "contact_name", "full_name", "first_name", "last_name",
                      "patronymic"}
    /\ Size["contact_phone"] = 20 /\ Size["contact_name"] = 255 /\ Size["full_name"] = 320
    /\ Size["first_name"] = 100 /\ Size["last_name"] = 100 /\ Size["patronymic"] = 100
  BY DEF Size

\* A name put together from parts that fit their columns fits its own.
LEMMA JoinedIs ==
    ASSUME NEW r, r.last_name \in Seq(Word), r.first_name \in Seq(Word),
           r.patronymic \in Seq(Word) \cup {Null}
    PROVE  /\ Joined(r) \in Seq(Word)
           /\ Numbered(Joined(r)) =
                  Numbered(r.last_name \o r.first_name \o Coalesce(r.patronymic, <<Empty>>))
           /\ TextLen(r.last_name) <= 100 /\ TextLen(r.first_name) <= 100
              /\ (r.patronymic # Null => TextLen(r.patronymic) <= 100)
                => TextLen(Joined(r)) <= 320
  <1> DEFINE p == Coalesce(r.patronymic, <<Empty>>)
             a == r.last_name \o r.first_name
             s == a \o p
  <1>1. /\ p \in Seq(Word)
        /\ (r.patronymic # Null => TextLen(r.patronymic) <= 100) => TextLen(p) <= 100
    BY EmptyText DEF Coalesce
  <1>2. a \in Seq(Word) /\ TextLen(a) = TextLen(r.last_name) + TextLen(r.first_name) + 1
    BY ConcatLen
  <1> HIDE DEF a, p
  <1>3. s \in Seq(Word) /\ TextLen(s) = TextLen(a) + TextLen(p) + 1
    BY <1>1, <1>2, ConcatLen
  <1> HIDE DEF s
  <1>4. Joined(r) = Trimmed(s)
    BY DEF Joined, s, a, p
  <1>5. Joined(r) \in Seq(Word) /\ Numbered(Joined(r)) = Numbered(s)
    BY <1>3, <1>4, TrimmedLen, TrimmedWords
  <1>6. ASSUME TextLen(r.last_name) <= 100, TextLen(r.first_name) <= 100,
               r.patronymic # Null => TextLen(r.patronymic) <= 100
        PROVE  TextLen(Joined(r)) <= 320
    <2>1. /\ TextLen(r.last_name) \in Int /\ TextLen(r.first_name) \in Int /\ TextLen(p) \in Int
          /\ TextLen(a) \in Int /\ TextLen(s) \in Int
      BY <1>1, <1>2, <1>3, TextLenInt
    <2>2. TextLen(s) <= 302
      BY <1>1, <1>2, <1>3, <1>6, <2>1
    <2>3. CASE s = <<>>
      <3>1. Words(s) = {} /\ Len(s) = 0
        BY <2>3 DEF Words
      <3>2. Trimmed(s) = <<Empty>>
        <4>1. 1..Len(s) = {}
          BY <3>1
        <4> QED BY <1>3, <4>1, TrimmedIs, Zenon
      <3> QED BY <1>4, <3>2, EmptyText
    <2>4. CASE s # <<>>
      <3>1. TextLen(Trimmed(s)) <= TextLen(s) /\ TextLen(Trimmed(s)) \in Int
        BY <1>3, <2>4, TrimmedLen, TextLenInt
      <3> QED BY <1>4, <2>1, <2>2, <3>1
    <2> QED BY <2>3, <2>4
  <1> QED
    BY <1>5, <1>6 DEF s, a, p

\* The k-th word, as a text.
LEMMA PartIs ==
    ASSUME NEW s \in Seq(Word), NEW k \in 1..Len(s)
    PROVE  SplitPart(s, k) = SubSeq(s, k, k) /\ SplitPart(s, k) \in Seq(Word)
  <1>1. k \in Int /\ Len(s) \in Nat /\ s[k] \in Word
    BY TextIs
  <1>2. /\ SubSeq(s, k, k) \in Seq(Word) /\ Len(SubSeq(s, k, k)) = 1
        /\ SubSeq(s, k, k)[1] = s[k]
    BY <1>1, SubSeqProperties
  <1>3. SubSeq(s, k, k) = <<s[k]>>
    <2>1. <<s[k]>> \in Seq(Word) /\ Len(<<s[k]>>) = 1 /\ <<s[k]>>[1] = s[k]
      BY <1>1
    <2>2. \A i \in 1..1 : SubSeq(s, k, k)[i] = <<s[k]>>[i]
      BY <1>2, <2>1
    <2> QED BY <1>2, <2>1, <2>2, SeqEqual
  <1> QED
    BY <1>1, <1>2, <1>3 DEF SplitPart

\* A name taken apart: its words stay, and a part that does not fit is too long.
LEMMA SplitIs ==
    ASSUME NEW row, row.full_name \in Seq(Word)
    PROVE  LET x == Split(row)
               s == Trimmed(row.full_name)
           IN /\ DOMAIN x = {"last_name", "first_name", "patronymic"}
              /\ x.last_name \in Seq(Word) /\ x.first_name \in Seq(Word)
              /\ x.patronymic \in Seq(Word) \cup {Null}
              /\ Numbered(x.last_name \o x.first_name \o Coalesce(x.patronymic, <<Empty>>)) =
                     Numbered(row.full_name)
              /\ \/ /\ TextLen(x.last_name) <= 100 /\ TextLen(x.first_name) <= 100
                    /\ x.patronymic # Null => TextLen(x.patronymic) <= 100
                 \/ \E i \in 1..3 :
                        i <= Len(s) /\ TextLen(SubSeq(s, i, IF i = 3 THEN Len(s) ELSE i)) > 100
  <1> DEFINE x == Split(row)
             s == Trimmed(row.full_name)
             rest == SubSeq(s, 3, Len(s))
  <1>1. /\ s \in Seq(Word) /\ Len(s) \in Nat /\ Len(s) >= 1
        /\ Numbered(s) = Numbered(row.full_name)
    BY TrimmedLen, TrimmedWords, TextIs
  <1>2. /\ DOMAIN x = {"last_name", "first_name", "patronymic"}
        /\ x.last_name = SplitPart(s, 1) /\ x.first_name = SplitPart(s, 2)
        /\ x.patronymic = IF Len(s) > 2 THEN Trimmed(rest) ELSE Null
    BY DEF Split
  <1> HIDE DEF x, s
  <1>3. rest \in Seq(Word) /\ (Len(s) > 2 => Len(rest) >= 1)
    <2>1. \A i \in 3..Len(s) : s[i] \in Word
      BY <1>1, TextIs
    <2> QED BY <1>1, <2>1, SubSeqProperties
  <1> HIDE DEF rest
  <1>4. x.last_name \in Seq(Word) /\ x.last_name = SubSeq(s, 1, 1)
    BY <1>1, <1>2, PartIs
  <1>5. /\ x.first_name \in Seq(Word)
        /\ Len(s) >= 2 => x.first_name = SubSeq(s, 2, 2)
        /\ Len(s) < 2 => x.first_name = <<Empty>>
    <2>1. CASE Len(s) >= 2
      BY <1>1, <1>2, <2>1, PartIs
    <2>2. CASE Len(s) < 2
      BY <1>1, <1>2, <2>2, EmptyText DEF SplitPart
    <2> QED BY <1>1, <2>1, <2>2
  <1>6. x.patronymic \in Seq(Word) \cup {Null}
    BY <1>2, <1>3, TrimmedLen
  <1> DEFINE p == Coalesce(x.patronymic, <<Empty>>)
             a == x.last_name \o x.first_name
  <1>7. Numbered(a \o p) = Numbered(s)
    <2>1. Words(<<Empty>>) = {}
      BY DEF Words, IsWord
    <2>2. \A t \in Seq(Word) : Numbered(t \o <<Empty>>) = Numbered(t)
      BY <2>1, EmptyText, NoWords
    <2>3. a \in Seq(Word)
      BY <1>4, <1>5, ConcatProperties
    <2>4. CASE Len(s) = 1
      <3>1. x.last_name = s
        BY <1>1, <1>4, <2>4, SubSeqFull
      <3>2. p = <<Empty>> /\ a = s \o <<Empty>>
        <4>1. x.patronymic = Null /\ x.first_name = <<Empty>>
          BY <1>2, <1>5, <2>4
        <4> QED BY <3>1, <4>1, Zenon DEF Coalesce
      <3> HIDE DEF a, p
      <3> QED BY <1>1, <2>2, <2>3, <3>2
    <2>5. CASE Len(s) >= 2
      <3>1. a = SubSeq(s, 1, 2)
        <4>1. 1 \in 1..(Len(s) + 1) /\ 1 \in (1 - 1)..Len(s) /\ 2 \in 1..Len(s) /\ 1 + 1 = 2
          BY <1>1, <2>5
        <4> QED BY <1>1, <1>4, <1>5, <2>5, <4>1, ConcatAdjacentSubSeq
      <3>2. CASE Len(s) = 2
        <4>1. a = s
          BY <1>1, <3>1, <3>2, SubSeqFull
        <4>2. p = <<Empty>>
          BY <1>2, <3>2 DEF Coalesce
        <4> HIDE DEF a, p
        <4> QED BY <1>1, <2>2, <4>1, <4>2
      <3>3. CASE Len(s) > 2
        <4>1. a \o rest = s
          <5>1. 1 \in 1..(Len(s) + 1) /\ 2 \in (1 - 1)..Len(s) /\ Len(s) \in 2..Len(s) /\ 2 + 1 = 3
            BY <1>1, <3>3
          <5>2. SubSeq(s, 1, 2) \o SubSeq(s, 3, Len(s)) = SubSeq(s, 1, Len(s))
            BY <1>1, <5>1, ConcatAdjacentSubSeq
          <5>3. SubSeq(s, 1, Len(s)) = s
            BY <1>1, SubSeqFull
          <5> HIDE DEF a
          <5> QED BY <3>1, <5>2, <5>3 DEF rest
        <4>2. p = Trimmed(rest)
          <5>1. Trimmed(rest) \in Seq(Word)
            BY <1>3, TrimmedLen
          <5> QED BY <1>2, <3>3, <5>1, MigrationsAssumption DEF Coalesce
        <4>3. Trimmed(rest) \in Seq(Word) /\ Numbered(Trimmed(rest)) = Numbered(rest)
          BY <1>3, TrimmedLen, TrimmedWords
        <4> DEFINE n == Cardinality(Words(a))
        <4> HIDE DEF a, p
        <4>4. Numbered(a \o p) = Numbered(a) \cup {<<n + y[1], y[2]>> : y \in Numbered(p)}
          BY <2>3, <4>2, <4>3, ConcatNumbered
        <4>5. Numbered(a \o rest) = Numbered(a) \cup {<<n + y[1], y[2]>> : y \in Numbered(rest)}
          BY <1>3, <2>3, ConcatNumbered
        <4> QED BY <4>1, <4>2, <4>3, <4>4, <4>5
      <3>4. Len(s) = 2 \/ Len(s) > 2
        <4>1. \A n \in Nat : n >= 2 => n = 2 \/ n > 2
          OBVIOUS
        <4> QED BY <1>1, <2>5, <4>1, Zenon
      <3> QED BY <3>2, <3>3, <3>4, Zenon
    <2> QED BY <1>1, <2>4, <2>5
  <1> DEFINE Long(i) == i <= Len(s) /\ TextLen(SubSeq(s, i, IF i = 3 THEN Len(s) ELSE i)) > 100
  <1>8. TextLen(x.last_name) <= 100 \/ Long(1)
    <2>1. TextLen(x.last_name) \in Int
      BY <1>4, TextLenInt
    <2> QED BY <1>1, <1>4, <2>1
  <1>9. TextLen(x.first_name) <= 100 \/ Long(2)
    <2>1. TextLen(x.first_name) \in Int
      BY <1>5, TextLenInt
    <2>2. CASE Len(s) >= 2
      <3>1. Long(2) <=> TextLen(x.first_name) > 100
        <4>1. (IF 2 = 3 THEN Len(s) ELSE 2) = 2
          OBVIOUS
        <4> QED BY <1>5, <2>2, <4>1
      <3> HIDE DEF Long
      <3> QED BY <2>1, <3>1
    <2>3. CASE Len(s) < 2
      <3>1. TextLen(x.first_name) = 0
        BY <1>5, <2>3, EmptyText
      <3> QED BY <3>1
    <2> QED BY <1>1, <2>2, <2>3
  <1>10. x.patronymic # Null => TextLen(x.patronymic) <= 100 \/ Long(3)
    <2> SUFFICES ASSUME x.patronymic # Null PROVE TextLen(x.patronymic) <= 100 \/ Long(3)
      OBVIOUS
    <2>1. Len(s) > 2 /\ x.patronymic = Trimmed(rest)
      BY <1>2
    <2>2. /\ TextLen(Trimmed(rest)) <= TextLen(rest)
          /\ TextLen(Trimmed(rest)) \in Int /\ TextLen(rest) \in Int
      <3>1. rest # <<>>
        BY <1>3, <2>1
      <3> QED BY <1>3, <3>1, TrimmedLen, TextLenInt
    <2>3. TextLen(rest) > 100 => Long(3)
      BY <1>1, <2>1 DEF rest
    <2> HIDE DEF Long
    <2> QED BY <2>1, <2>2, <2>3
  <1>11. \/ /\ TextLen(x.last_name) <= 100 /\ TextLen(x.first_name) <= 100
            /\ x.patronymic # Null => TextLen(x.patronymic) <= 100
         \/ \E i \in 1..3 : Long(i)
    <2> HIDE DEF Long
    <2> QED BY <1>8, <1>9, <1>10
  <1> QED
    BY <1>1, <1>2, <1>4, <1>5, <1>6, <1>7, <1>11, Zenon DEF x, s

\* The tables are kept.
LEMMA TablesKept ==
    "company" \in KeptTables /\ "employee_profile" \in KeptTables /\ "schedule" \in KeptTables
  BY DEF KeptTables

\* The values a column may hold whatever it is.
LEMMA ValuesAre == Seq(Word) \subseteq Value /\ Null \in Value /\ Null \notin Seq(Word)
  BY MigrationsAssumption DEF Value

\* A profile, one revision up: good, with the same words and values.
LEMMA ProfileUp ==
    ASSUME NEW k \in 2..9, NEW row, GoodRow(row, "employee_profile", k - 1)
    PROVE  LET x == Moved(row, "employee_profile", SchemaAt[k], UpProfile(k, row))
           IN /\ GoodRow(x, "employee_profile", k) /\ x # NoRow
              /\ WordsOf(x) = WordsOf(row)
              /\ \A c \in {"rate_type", "currency", "phone", "avatar_key"} : c \in DOMAIN x =>
                    x[c] = IF c \in DOMAIN row THEN row[c] ELSE Null
  <1> DEFINE t == "employee_profile"
             filled == UpProfile(k, row)
             x == Moved(row, t, SchemaAt[k], filled)
  <1>1. k \in 0..9 /\ k - 1 \in 0..9 /\ k - 1 >= 1
    OBVIOUS
  <1>2. DOMAIN filled = IF k = 4 THEN {"full_name"} ELSE {}
    BY DEF UpProfile
  <1>3. k = 4 => filled["full_name"] = Joined(row)
    BY DEF UpProfile
  <1> HIDE DEF filled
  <1>4. /\ DOMAIN x = Span(t, k)
        /\ \A c \in Span(t, k) : x[c] = IF c \in DOMAIN filled THEN filled[c]
                                        ELSE IF c \in DOMAIN row THEN row[c] ELSE Null
        /\ (\A c \in Span(t, k) : x[c] \in Value) => x # NoRow
    BY <1>1, MovedIs, TablesKept
  <1> HIDE DEF x
  <1>5. /\ DOMAIN row = Span(t, k - 1)
        /\ \A c \in DOMAIN row : Holds(t, c, row[c]) /\ HasRoom(c, row[c])
    BY DEF GoodRow
  <1>6. /\ \A c : c \in Span(t, k) <=>
               \/ c \in {"first_name", "last_name", "patronymic"} /\ k <= 3
               \/ c \in {"rate_type", "currency"}
               \/ c = "full_name" /\ k >= 4
               \/ c = "phone" /\ k >= 3
               \/ c = "avatar_key" /\ k >= 7
        /\ \A c : c \in Span(t, k - 1) <=>
               \/ c \in {"first_name", "last_name", "patronymic"} /\ k <= 4
               \/ c \in {"rate_type", "currency"}
               \/ c = "full_name" /\ k >= 5
               \/ c = "phone" /\ k >= 4
               \/ c = "avatar_key" /\ k >= 8
    BY <1>1, SpansAre
  <1> HIDE DEF t
  <1>7. k = 4 => /\ row.last_name \in Seq(Word) /\ row.first_name \in Seq(Word)
                 /\ row.patronymic \in Seq(Word) \cup {Null}
                 /\ TextLen(row.last_name) <= 100 /\ TextLen(row.first_name) <= 100
                 /\ row.patronymic # Null => TextLen(row.patronymic) <= 100
    <2> SUFFICES ASSUME k = 4
                 PROVE  /\ row.last_name \in Seq(Word) /\ row.first_name \in Seq(Word)
                        /\ row.patronymic \in Seq(Word) \cup {Null}
                        /\ TextLen(row.last_name) <= 100 /\ TextLen(row.first_name) <= 100
                        /\ row.patronymic # Null => TextLen(row.patronymic) <= 100
      OBVIOUS
    <2>1. "last_name" \in DOMAIN row /\ "first_name" \in DOMAIN row /\ "patronymic" \in DOMAIN row
      BY <1>5, <1>6
    <2>2. /\ row.last_name \in Seq(Word) /\ row.first_name \in Seq(Word)
          /\ row.patronymic \in Seq(Word) \cup {Null}
      BY <1>5, <2>1 DEF Holds, TextColumns
    <2> QED BY <1>5, <2>1, <2>2, SizesAre, ValuesAre DEF HasRoom
  <1>8. ASSUME NEW c \in DOMAIN x PROVE Holds(t, c, x[c]) /\ HasRoom(c, x[c])
    <2>1. CASE c \in DOMAIN filled
      <3>1. k = 4 /\ c = "full_name" /\ x[c] = Joined(row)
        BY <1>2, <1>3, <1>4, <2>1
      <3>2. x[c] \in Seq(Word) /\ TextLen(x[c]) <= 320
        BY <1>7, <3>1, JoinedIs
      <3> QED BY <3>1, <3>2, ValuesAre, SizesAre DEF Holds, HasRoom
    <2>2. CASE c \notin DOMAIN filled /\ c \in DOMAIN row
      BY <1>4, <1>5, <2>2
    <2>3. CASE c \notin DOMAIN filled /\ c \notin DOMAIN row
      <3>1. c = "phone" \/ c = "avatar_key"
        BY <1>2, <1>4, <1>5, <1>6, <2>3
      <3>2. x[c] = Null
        BY <1>4, <2>3
      <3> QED BY <3>1, <3>2, ValuesAre DEF Holds, HasRoom, MayBeNull, TextColumns, t
    <2> QED BY <2>1, <2>2, <2>3
  <1>9. GoodRow(x, t, k) /\ x # NoRow
    BY <1>4, <1>8 DEF GoodRow, Holds
  <1>10. \A c \in {"rate_type", "currency", "phone", "avatar_key"} : c \in DOMAIN x =>
             x[c] = IF c \in DOMAIN row THEN row[c] ELSE Null
    BY <1>2, <1>4
  <1>11. WordsOf(x) = WordsOf(row)
    <2>1. CASE k >= 5
      <3>1. /\ "full_name" \in DOMAIN x /\ "full_name" \in DOMAIN row
            /\ x.full_name = row.full_name
        BY <1>2, <1>4, <1>5, <1>6, <2>1
      <3> QED BY <3>1 DEF WordsOf
    <2>2. CASE k = 4
      <3>1. /\ "full_name" \in DOMAIN x /\ "full_name" \notin DOMAIN row
            /\ x.full_name = Joined(row)
        BY <1>2, <1>3, <1>4, <1>5, <1>6, <2>2
      <3> QED BY <3>1 DEF WordsOf
    <2>3. CASE k <= 3
      <3>1. /\ "full_name" \notin DOMAIN x /\ "full_name" \notin DOMAIN row
            /\ x.last_name = row.last_name /\ x.first_name = row.first_name
            /\ x.patronymic = row.patronymic
        BY <1>2, <1>4, <1>5, <1>6, <2>3
      <3>2. Joined(x) = Joined(row)
        BY <3>1 DEF Joined
      <3> QED BY <3>1, <3>2 DEF WordsOf
    <2> QED BY <2>1, <2>2, <2>3
  <1> QED
    BY <1>9, <1>10, <1>11 DEF x, t, filled

\* A profile, one revision down: as good, but that a name may have no room.
LEMMA ProfileDown ==
    ASSUME NEW k \in 2..9, NEW row, GoodRow(row, "employee_profile", k)
    PROVE  LET x == Moved(row, "employee_profile", SchemaAt[k - 1], DownProfile(k, row))
           IN /\ DOMAIN x = Span("employee_profile", k - 1) /\ x # NoRow
              /\ \A c \in DOMAIN x : Holds("employee_profile", c, x[c])
              /\ WordsOf(x) = WordsOf(row)
              /\ \A c \in {"rate_type", "currency", "phone", "avatar_key"} : c \in DOMAIN x =>
                    c \in DOMAIN row /\ x[c] = row[c]
              /\ \/ \A c \in DOMAIN x : HasRoom(c, x[c])
                 \/ /\ k = 4
                    /\ \E i \in 1..3 :
                          LET s == Trimmed(row.full_name)
                          IN i <= Len(s) /\ TextLen(SubSeq(s, i, IF i = 3 THEN Len(s) ELSE i)) > 100
  <1> DEFINE t == "employee_profile"
             filled == DownProfile(k, row)
             x == Moved(row, t, SchemaAt[k - 1], filled)
             Long == \E i \in 1..3 :
                        LET s == Trimmed(row.full_name)
                        IN i <= Len(s) /\ TextLen(SubSeq(s, i, IF i = 3 THEN Len(s) ELSE i)) > 100
  <1>1. k \in 0..9 /\ k - 1 \in 0..9 /\ k - 1 >= 1
    OBVIOUS
  <1>2. filled = IF k = 4 THEN Split(row) ELSE <<>>
    BY DEF DownProfile
  <1> HIDE DEF filled
  <1>3. k # 4 => DOMAIN filled = {}
    BY <1>2
  <1>4. /\ DOMAIN x = Span(t, k - 1)
        /\ \A c \in Span(t, k - 1) : x[c] = IF c \in DOMAIN filled THEN filled[c]
                                            ELSE IF c \in DOMAIN row THEN row[c] ELSE Null
        /\ (\A c \in Span(t, k - 1) : x[c] \in Value) => x # NoRow
    BY <1>1, MovedIs, TablesKept
  <1> HIDE DEF x
  <1>5. /\ DOMAIN row = Span(t, k)
        /\ \A c \in DOMAIN row : Holds(t, c, row[c]) /\ HasRoom(c, row[c])
    BY DEF GoodRow
  <1>6. /\ \A c : c \in Span(t, k) <=>
               \/ c \in {"first_name", "last_name", "patronymic"} /\ k <= 3
               \/ c \in {"rate_type", "currency"}
               \/ c = "full_name" /\ k >= 4
               \/ c = "phone" /\ k >= 3
               \/ c = "avatar_key" /\ k >= 7
        /\ \A c : c \in Span(t, k - 1) <=>
               \/ c \in {"first_name", "last_name", "patronymic"} /\ k <= 4
               \/ c \in {"rate_type", "currency"}
               \/ c = "full_name" /\ k >= 5
               \/ c = "phone" /\ k >= 4
               \/ c = "avatar_key" /\ k >= 8
    BY <1>1, SpansAre
  <1> HIDE DEF t
  <1>7. k = 4 => row.full_name \in Seq(Word)
    <2>1. k = 4 => "full_name" \in DOMAIN row
      BY <1>5, <1>6
    <2> QED BY <1>5, <2>1 DEF Holds, TextColumns
  <1>8. k = 4 =>
          /\ DOMAIN filled = {"last_name", "first_name", "patronymic"}
          /\ filled.last_name \in Seq(Word) /\ filled.first_name \in Seq(Word)
          /\ filled.patronymic \in Seq(Word) \cup {Null}
          /\ Numbered(filled.last_name \o filled.first_name
                        \o Coalesce(filled.patronymic, <<Empty>>)) = Numbered(row.full_name)
          /\ \/ /\ TextLen(filled.last_name) <= 100 /\ TextLen(filled.first_name) <= 100
                /\ filled.patronymic # Null => TextLen(filled.patronymic) <= 100
             \/ Long
    BY <1>2, <1>7, SplitIs
  <1> HIDE DEF Long
  <1>9. ASSUME NEW c \in DOMAIN x
        PROVE  Holds(t, c, x[c]) /\ (HasRoom(c, x[c]) \/ (k = 4 /\ Long))
    <2>1. CASE c \in DOMAIN filled
      <3>1. k = 4 /\ c \in {"last_name", "first_name", "patronymic"} /\ x[c] = filled[c]
        BY <1>3, <1>4, <1>8, <2>1
      <3>2. Holds(t, c, filled[c])
        <4>1. CASE c = "patronymic"
          <5>1. filled[c] \in Seq(Word) \cup {Null}
            BY <1>8, <3>1, <4>1
          <5>2. MayBeNull(t, c) /\ c \notin TextColumns
            BY <4>1 DEF MayBeNull, t, TextColumns
          <5> QED BY <5>1, <5>2, ValuesAre DEF Holds
        <4>2. CASE c # "patronymic"
          <5>1. filled[c] \in Seq(Word)
            BY <1>8, <3>1, <4>2
          <5> QED BY <4>2, <5>1, ValuesAre DEF Holds
        <4> QED BY <4>1, <4>2
      <3>3. HasRoom(c, filled[c]) \/ Long
        BY <1>8, <3>1, SizesAre DEF HasRoom
      <3> QED BY <3>1, <3>2, <3>3
    <2>2. CASE c \notin DOMAIN filled
      <3>1. c \in DOMAIN row
        BY <1>4, <1>5, <1>6, <1>8, <2>2
      <3> QED BY <1>4, <1>5, <2>2, <3>1
    <2> QED BY <2>1, <2>2
  <1>10. x # NoRow
    BY <1>4, <1>9 DEF Holds
  <1>11. \A c \in {"rate_type", "currency", "phone", "avatar_key"} : c \in DOMAIN x =>
             c \in DOMAIN row /\ x[c] = row[c]
    <2> SUFFICES ASSUME NEW c \in {"rate_type", "currency", "phone", "avatar_key"}, c \in DOMAIN x
                 PROVE  c \in DOMAIN row /\ x[c] = row[c]
      OBVIOUS
    <2>1. c \notin DOMAIN filled
      BY <1>3, <1>8
    <2>2. c \in DOMAIN row
      BY <1>4, <1>5, <1>6
    <2> QED BY <1>4, <2>1, <2>2
  <1>12. WordsOf(x) = WordsOf(row)
    <2>1. CASE k >= 5
      <3>1. /\ "full_name" \in DOMAIN x /\ "full_name" \in DOMAIN row
            /\ x.full_name = row.full_name
        BY <1>3, <1>4, <1>5, <1>6, <2>1
      <3> QED BY <3>1 DEF WordsOf
    <2>2. CASE k = 4
      <3>1. /\ "full_name" \notin DOMAIN x /\ "full_name" \in DOMAIN row
            /\ x.last_name = filled.last_name /\ x.first_name = filled.first_name
            /\ x.patronymic = filled.patronymic
        BY <1>4, <1>5, <1>6, <1>8, <2>2
      <3>2. Numbered(Joined(x)) = Numbered(row.full_name)
        BY <1>8, <2>2, <3>1, JoinedIs
      <3> QED BY <3>1, <3>2 DEF WordsOf
    <2>3. CASE k <= 3
      <3>1. /\ "full_name" \notin DOMAIN x /\ "full_name" \notin DOMAIN row
            /\ x.last_name = row.last_name /\ x.first_name = row.first_name
            /\ x.patronymic = row.patronymic
        BY <1>3, <1>4, <1>5, <1>6, <2>3
      <3>2. Joined(x) = Joined(row)
        BY <3>1 DEF Joined
      <3> QED BY <3>1, <3>2 DEF WordsOf
    <2> QED BY <2>1, <2>2, <2>3
  <1>13. \/ \A c \in DOMAIN x : HasRoom(c, x[c])
         \/ k = 4 /\ Long
    BY <1>9
  <1>14. DOMAIN x = Span(t, k - 1) /\ \A c \in DOMAIN x : Holds(t, c, x[c])
    BY <1>4, <1>9
  <1> QED
    BY <1>10, <1>11, <1>12, <1>13, <1>14, Zenon DEF x, t, filled, Long

\* The rate in a profile is filled in.
LEMMA RateIsThere ==
    ASSUME NEW k \in 1..9, NEW row, GoodRow(row, "employee_profile", k)
    PROVE  \A c \in {"rate_type", "currency"} :
               c \in DOMAIN row /\ row[c] \in Value /\ row[c] # Null
  <1>1. k \in 0..9 /\ k >= 1
    OBVIOUS
  <1>2. \A c \in {"rate_type", "currency"} : c \in DOMAIN row
    BY <1>1, SpansAre DEF GoodRow
  <1>3. \A c \in {"rate_type", "currency"} : ~MayBeNull("employee_profile", c)
    BY DEF MayBeNull
  <1> QED
    BY <1>2, <1>3 DEF GoodRow, Holds

\* A scheduled day, one revision up: the rate that it gets is its profile's.
LEMMA DayUp ==
    ASSUME NEW k \in 6..9, NEW row, GoodRow(row, "schedule", k - 1),
           NEW p, GoodRow(p, "employee_profile", k - 1)
    PROVE  LET x == Moved(row, "schedule", SchemaAt[k], UpDay(k, p))
           IN /\ GoodRow(x, "schedule", k) /\ x # NoRow
              /\ x.rate_type = IF k = 6 THEN p.rate_type ELSE row.rate_type
              /\ k >= 8 => x.currency = IF k = 8 THEN p.currency ELSE row.currency
  <1> DEFINE t == "schedule"
             filled == UpDay(k, p)
             x == Moved(row, t, SchemaAt[k], filled)
  <1>1. k \in 0..9 /\ k - 1 \in 0..9 /\ k - 1 \in 1..9
    OBVIOUS
  <1>2. /\ p["rate_type"] \in Value /\ p["rate_type"] # Null
        /\ p["currency"] \in Value /\ p["currency"] # Null
    BY <1>1, RateIsThere
  <1>3. /\ k = 6 => DOMAIN filled = {"rate_type"} /\ filled["rate_type"] = p["rate_type"]
        /\ k = 8 => DOMAIN filled = {"currency"} /\ filled["currency"] = p["currency"]
        /\ k # 6 /\ k # 8 => DOMAIN filled = {}
    BY <1>2 DEF UpDay, Coalesce
  <1> HIDE DEF filled
  <1>4. /\ DOMAIN x = Span(t, k)
        /\ \A c \in Span(t, k) : x[c] = IF c \in DOMAIN filled THEN filled[c]
                                        ELSE IF c \in DOMAIN row THEN row[c] ELSE Null
        /\ (\A c \in Span(t, k) : x[c] \in Value) => x # NoRow
    BY <1>1, MovedIs, TablesKept
  <1> HIDE DEF x
  <1>5. /\ DOMAIN row = Span(t, k - 1)
        /\ \A c \in DOMAIN row : Holds(t, c, row[c]) /\ HasRoom(c, row[c])
    BY DEF GoodRow
  <1>6. /\ \A c : c \in Span(t, k) <=> c = "rate_type" \/ (c = "currency" /\ k >= 8)
        /\ \A c : c \in Span(t, k - 1) <=> (c = "rate_type" /\ k >= 7) \/ (c = "currency" /\ k >= 9)
    BY <1>1, SpansAre
  <1> HIDE DEF t
  <1>7. /\ x["rate_type"] = IF k = 6 THEN p["rate_type"] ELSE row["rate_type"]
        /\ k >= 8 => x["currency"] = IF k = 8 THEN p["currency"] ELSE row["currency"]
    <2>1. k # 6 => "rate_type" \in DOMAIN row /\ "rate_type" \notin DOMAIN filled
      BY <1>1, <1>3, <1>5, <1>6
    <2>2. k >= 8 /\ k # 8 => "currency" \in DOMAIN row /\ "currency" \notin DOMAIN filled
      BY <1>1, <1>3, <1>5, <1>6
    <2> QED BY <1>3, <1>4, <1>6, <2>1, <2>2
  <1>8. ASSUME NEW c \in DOMAIN x PROVE Holds(t, c, x[c]) /\ HasRoom(c, x[c])
    <2>1. c \in {"rate_type", "currency"} /\ (c = "currency" => k >= 8)
      BY <1>4, <1>6
    <2>2. x[c] = p[c] \/ (c \in DOMAIN row /\ x[c] = row[c])
      BY <1>3, <1>4, <1>5, <1>6, <1>7, <2>1
    <2>3. CASE x[c] = p[c]
      <3>1. c \notin TextColumns /\ c # "patronymic" /\ c \notin DOMAIN Size
        BY <2>1, SizesAre DEF TextColumns
      <3>2. x[c] \in Value /\ x[c] # Null
        BY <1>2, <2>1, <2>3
      <3> QED BY <3>1, <3>2 DEF Holds, HasRoom
    <2>4. CASE c \in DOMAIN row /\ x[c] = row[c]
      BY <1>5, <2>4
    <2> QED BY <2>2, <2>3, <2>4
  <1>9. GoodRow(x, t, k) /\ x # NoRow
    BY <1>4, <1>8 DEF GoodRow, Holds
  <1> QED
    BY <1>7, <1>9 DEF x, t, filled

\* A scheduled day, one revision down, as long as there are any.
LEMMA DayDown ==
    ASSUME NEW k \in 6..9, NEW row, GoodRow(row, "schedule", k)
    PROVE  LET x == Moved(row, "schedule", SchemaAt[k - 1], <<>>)
           IN /\ GoodRow(x, "schedule", k - 1) /\ x # NoRow
              /\ \A c \in DOMAIN x : x[c] = row[c]
  <1> DEFINE t == "schedule"
             x == Moved(row, t, SchemaAt[k - 1], <<>>)
  <1>1. k \in 0..9 /\ k - 1 \in 0..9
    OBVIOUS
  <1>2. /\ DOMAIN x = Span(t, k - 1)
        /\ \A c \in Span(t, k - 1) : x[c] = IF c \in DOMAIN row THEN row[c] ELSE Null
        /\ (\A c \in Span(t, k - 1) : x[c] \in Value) => x # NoRow
    <2>1. DOMAIN <<>> = {}
      OBVIOUS
    <2> DEFINE none == <<>>
               y == Moved(row, t, SchemaAt[k - 1], none)
    <2> HIDE DEF none
    <2>2. /\ DOMAIN y = Span(t, k - 1)
          /\ \A c \in Span(t, k - 1) : y[c] = IF c \in DOMAIN none THEN none[c]
                                              ELSE IF c \in DOMAIN row THEN row[c] ELSE Null
          /\ (\A c \in Span(t, k - 1) : y[c] \in Value) => y # NoRow
      BY <1>1, MovedIs, TablesKept
    <2> HIDE DEF y
    <2>3. /\ DOMAIN y = Span(t, k - 1)
          /\ \A c \in Span(t, k - 1) : y[c] = IF c \in DOMAIN row THEN row[c] ELSE Null
          /\ (\A c \in Span(t, k - 1) : y[c] \in Value) => y # NoRow
      BY <2>1, <2>2 DEF none
    <2> QED BY <2>3 DEF y, none
  <1> HIDE DEF x
  <1>3. /\ DOMAIN row = Span(t, k)
        /\ \A c \in DOMAIN row : Holds(t, c, row[c]) /\ HasRoom(c, row[c])
    BY DEF GoodRow
  <1>4. \A c \in Span(t, k - 1) : c \in Span(t, k)
    BY <1>1, SpansAre
  <1> HIDE DEF t
  <1>5. \A c \in DOMAIN x : c \in DOMAIN row /\ x[c] = row[c]
    BY <1>2, <1>3, <1>4
  <1>6. GoodRow(x, t, k - 1) /\ x # NoRow
    BY <1>2, <1>3, <1>5 DEF GoodRow, Holds
  <1> QED
    BY <1>5, <1>6 DEF x, t

\* The company, one revision up: its contact goes from column to column.
LEMMA CompanyUp ==
    ASSUME NEW k \in 2..9, NEW row, GoodRow(row, "company", k - 1)
    PROVE  LET x == Moved(row, "company", SchemaAt[k], UpCompany(k, row))
           IN GoodRow(x, "company", k) /\ x # NoRow
  <1> DEFINE t == "company"
             filled == UpCompany(k, row)
             x == Moved(row, t, SchemaAt[k], filled)
  <1>1. k \in 0..9 /\ k - 1 \in 0..9 /\ k - 1 >= 1
    OBVIOUS
  <1>2. /\ k = 2 => /\ DOMAIN filled = {"contact_name"}
                    /\ filled["contact_name"] = row["contact_phone"]
        /\ k # 2 => DOMAIN filled = {}
    BY DEF UpCompany
  <1> HIDE DEF filled
  <1>3. /\ DOMAIN x = Span(t, k)
        /\ \A c \in Span(t, k) : x[c] = IF c \in DOMAIN filled THEN filled[c]
                                        ELSE IF c \in DOMAIN row THEN row[c] ELSE Null
        /\ (\A c \in Span(t, k) : x[c] \in Value) => x # NoRow
    BY <1>1, MovedIs, TablesKept
  <1> HIDE DEF x
  <1>4. /\ DOMAIN row = Span(t, k - 1)
        /\ \A c \in DOMAIN row : Holds(t, c, row[c]) /\ HasRoom(c, row[c])
    BY DEF GoodRow
  <1>5. /\ \A c : c \in Span(t, k) <=> c = "contact_name"
        /\ k = 2 => \A c : c \in Span(t, k - 1) <=> c = "contact_phone"
        /\ k # 2 => \A c : c \in Span(t, k - 1) <=> c = "contact_name"
    BY <1>1, SpansAre
  <1> HIDE DEF t
  <1>6. CASE k = 2
    <2>1. x["contact_name"] = row["contact_phone"]
      BY <1>2, <1>3, <1>5, <1>6
    <2>2. row["contact_phone"] \in Seq(Word) /\ TextLen(row["contact_phone"]) <= 20
      BY <1>4, <1>5, <1>6, SizesAre, ValuesAre DEF Holds, HasRoom, TextColumns
    <2>3. TextLen(row["contact_phone"]) <= 255
      BY <2>2, TextLenInt
    <2>4. "contact_name" \in TextColumns /\ "contact_name" # "patronymic"
      BY DEF TextColumns
    <2>5. Holds(t, "contact_name", x["contact_name"]) /\ HasRoom("contact_name", x["contact_name"])
      BY <2>1, <2>2, <2>3, <2>4, SizesAre, ValuesAre DEF Holds, HasRoom
    <2>6. GoodRow(x, t, k) /\ x # NoRow
      BY <1>3, <1>5, <2>5 DEF GoodRow, Holds
    <2> QED BY <2>6 DEF x, t, filled
  <1>7. CASE k # 2
    <2>1. \A c \in DOMAIN x : c \in DOMAIN row /\ x[c] = row[c]
      BY <1>2, <1>3, <1>4, <1>5, <1>7
    <2>2. GoodRow(x, t, k) /\ x # NoRow
      BY <1>3, <1>4, <2>1 DEF GoodRow, Holds
    <2> QED BY <2>2 DEF x, t, filled
  <1> QED
    BY <1>6, <1>7

\* The company, one revision down: as good, but that its contact may have no room.
LEMMA CompanyDown ==
    ASSUME NEW k \in 2..9, NEW row, GoodRow(row, "company", k)
    PROVE  LET x == Moved(row, "company", SchemaAt[k - 1], DownCompany(k, row))
           IN /\ DOMAIN x = Span("company", k - 1) /\ x # NoRow
              /\ \A c \in DOMAIN x : Holds("company", c, x[c])
              /\ \/ \A c \in DOMAIN x : HasRoom(c, x[c])
                 \/ k = 2 /\ TextLen(row.contact_name) > 20
  <1> DEFINE t == "company"
             filled == DownCompany(k, row)
             x == Moved(row, t, SchemaAt[k - 1], filled)
  <1>1. k \in 0..9 /\ k - 1 \in 0..9 /\ k - 1 >= 1
    OBVIOUS
  <1>2. /\ k = 2 => /\ DOMAIN filled = {"contact_phone"}
                    /\ filled["contact_phone"] = row["contact_name"]
        /\ k # 2 => DOMAIN filled = {}
    BY DEF DownCompany
  <1> HIDE DEF filled
  <1>3. /\ DOMAIN x = Span(t, k - 1)
        /\ \A c \in Span(t, k - 1) : x[c] = IF c \in DOMAIN filled THEN filled[c]
                                            ELSE IF c \in DOMAIN row THEN row[c] ELSE Null
        /\ (\A c \in Span(t, k - 1) : x[c] \in Value) => x # NoRow
    BY <1>1, MovedIs, TablesKept
  <1> HIDE DEF x
  <1>4. /\ DOMAIN row = Span(t, k)
        /\ \A c \in DOMAIN row : Holds(t, c, row[c]) /\ HasRoom(c, row[c])
    BY DEF GoodRow
  <1>5. /\ \A c : c \in Span(t, k) <=> c = "contact_name"
        /\ k = 2 => \A c : c \in Span(t, k - 1) <=> c = "contact_phone"
        /\ k # 2 => \A c : c \in Span(t, k - 1) <=> c = "contact_name"
    BY <1>1, SpansAre
  <1> HIDE DEF t
  <1>6. CASE k = 2
    <2>1. x["contact_phone"] = row["contact_name"]
      BY <1>2, <1>3, <1>5, <1>6
    <2>2. row["contact_name"] \in Seq(Word)
      BY <1>4, <1>5, <1>6 DEF Holds, TextColumns
    <2>3. TextLen(row["contact_name"]) \in Int
      BY <2>2, TextLenInt
    <2>4. "contact_phone" \in TextColumns /\ "contact_phone" # "patronymic"
      BY DEF TextColumns
    <2>5. /\ Holds(t, "contact_phone", x["contact_phone"])
          /\ HasRoom("contact_phone", x["contact_phone"]) \/ TextLen(row["contact_name"]) > 20
      BY <2>1, <2>2, <2>3, <2>4, SizesAre, ValuesAre DEF Holds, HasRoom
    <2>6. x # NoRow
      BY <1>3, <1>5, <1>6, <2>5 DEF Holds
    <2> QED BY <1>3, <1>5, <1>6, <2>5, <2>6 DEF x, t, filled
  <1>7. CASE k # 2
    <2>1. \A c \in DOMAIN x : c \in DOMAIN row /\ x[c] = row[c]
      BY <1>2, <1>3, <1>4, <1>5, <1>7
    <2>2. x # NoRow
      BY <1>3, <1>4, <2>1 DEF Holds
    <2> QED BY <1>3, <1>4, <2>1, <2>2 DEF x, t, filled
  <1> QED
    BY <1>6, <1>7

\* The rows of a database are good, and a day is of an employee.
RowsGood(w) ==
    /\ w.company # NoRow => w.rev >= 1 /\ GoodRow(w.company, "company", w.rev)
    /\ \A e \in Employee : w.profile[e] # NoRow =>
          w.rev >= 1 /\ GoodRow(w.profile[e], "employee_profile", w.rev)
    /\ \A e \in Employee : w.day[e] # NoRow =>
          w.rev >= 5 /\ w.profile[e] # NoRow /\ GoodRow(w.day[e], "schedule", w.rev)

\* A name that cannot go back to where it came from.
TooLong(w) ==
    \/ /\ w.rev = 2
       /\ TextLen(w.company.contact_name) > 20
    \/ /\ w.rev = 4
       /\ \E e \in Employee : w.profile[e] # NoRow /\
             \E i \in 1..3 :
                 LET s == Trimmed(w.profile[e].full_name)
                 IN i <= Len(s) /\ TextLen(SubSeq(s, i, IF i = 3 THEN Len(s) ELSE i)) > 100

\* The rows of a database one revision up.
LEMMA UpFields ==
    ASSUME NEW w, Shape(w), w.rev \in 0..8
    PROVE  LET x == Upgraded(w)
               k == w.rev + 1
           IN /\ k \in 1..9 /\ x.rev = k /\ x.schema = SchemaAt[k]
              /\ x.company = IF w.company = NoRow THEN NoRow
                             ELSE Moved(w.company, "company", SchemaAt[k], UpCompany(k, w.company))
              /\ \A e \in Employee :
                    x.profile[e] = IF w.profile[e] = NoRow THEN NoRow
                                   ELSE Moved(w.profile[e], "employee_profile", SchemaAt[k],
                                              UpProfile(k, w.profile[e]))
              /\ \A e \in Employee :
                    x.day[e] = IF w.day[e] = NoRow \/ k < 5 THEN NoRow
                               ELSE Moved(w.day[e], "schedule", SchemaAt[k], UpDay(k, w.profile[e]))
  <1> DEFINE x == Upgraded(w)
             k == w.rev + 1
             schema == (w.schema \ UpDrops[k]) \cup UpAdds[k]
  <1>1. k \in 1..9 /\ k \in 0..9 /\ k - 1 = w.rev
    OBVIOUS
  <1>2. schema = SchemaAt[k]
    BY <1>1, SchemaSteps DEF Shape
  <1>3. x = Rebuilt(w, TRUE, k, schema)
    BY DEF Upgraded
  <1> HIDE DEF x, schema, k
  <1>4. x = Rebuilt(w, TRUE, k, SchemaAt[k])
    BY <1>2, <1>3
  <1>5. /\ "company" \in Tables(SchemaAt[k]) /\ "employee_profile" \in Tables(SchemaAt[k])
        /\ "schedule" \notin Tables(SchemaAt[k]) <=> k < 5
    BY <1>1, TablesAre
  <1>6. /\ x.rev = k /\ x.schema = SchemaAt[k]
        /\ x.company = IF w.company = NoRow \/ "company" \notin Tables(SchemaAt[k]) THEN NoRow
                       ELSE Moved(w.company, "company", SchemaAt[k], UpCompany(k, w.company))
        /\ \A e \in Employee :
              x.profile[e] = IF w.profile[e] = NoRow \/ "employee_profile" \notin Tables(SchemaAt[k])
                             THEN NoRow
                             ELSE Moved(w.profile[e], "employee_profile", SchemaAt[k],
                                        UpProfile(k, w.profile[e]))
        /\ \A e \in Employee :
              x.day[e] = IF w.day[e] = NoRow \/ "schedule" \notin Tables(SchemaAt[k]) THEN NoRow
                         ELSE Moved(w.day[e], "schedule", SchemaAt[k], UpDay(k, w.profile[e]))
    BY <1>4 DEF Rebuilt
  <1>7. /\ x.company = IF w.company = NoRow THEN NoRow
                       ELSE Moved(w.company, "company", SchemaAt[k], UpCompany(k, w.company))
        /\ \A e \in Employee :
              x.profile[e] = IF w.profile[e] = NoRow THEN NoRow
                             ELSE Moved(w.profile[e], "employee_profile", SchemaAt[k],
                                        UpProfile(k, w.profile[e]))
        /\ \A e \in Employee :
              x.day[e] = IF w.day[e] = NoRow \/ k < 5 THEN NoRow
                         ELSE Moved(w.day[e], "schedule", SchemaAt[k], UpDay(k, w.profile[e]))
    BY <1>5, <1>6
  <1> QED
    BY <1>1, <1>6, <1>7 DEF x, k

\* The rows of a database one revision down.
LEMMA DownFields ==
    ASSUME NEW w, Shape(w), w.rev \in 1..9
    PROVE  LET x == Downgraded(w)
               k == w.rev
           IN /\ x.rev = k - 1 /\ x.schema = SchemaAt[k - 1]
              /\ x.company = IF w.company = NoRow \/ k = 1 THEN NoRow
                             ELSE Moved(w.company, "company", SchemaAt[k - 1],
                                        DownCompany(k, w.company))
              /\ \A e \in Employee :
                    x.profile[e] = IF w.profile[e] = NoRow \/ k = 1 THEN NoRow
                                   ELSE Moved(w.profile[e], "employee_profile", SchemaAt[k - 1],
                                              DownProfile(k, w.profile[e]))
              /\ \A e \in Employee :
                    x.day[e] = IF w.day[e] = NoRow \/ k < 6 THEN NoRow
                               ELSE Moved(w.day[e], "schedule", SchemaAt[k - 1], <<>>)
  <1> DEFINE x == Downgraded(w)
             k == w.rev
             schema == (w.schema \ DownDrops[k]) \cup DownAdds[k]
  <1>1. k \in 1..9 /\ k - 1 \in 0..9
    OBVIOUS
  <1>2. schema = SchemaAt[k - 1]
    BY SchemaSteps DEF Shape
  <1>3. x = Rebuilt(w, FALSE, k, schema)
    BY DEF Downgraded
  <1> HIDE DEF x, schema, k
  <1>4. x = Rebuilt(w, FALSE, k, SchemaAt[k - 1])
    BY <1>2, <1>3
  <1>5. /\ "company" \notin Tables(SchemaAt[k - 1]) <=> k = 1
        /\ "employee_profile" \notin Tables(SchemaAt[k - 1]) <=> k = 1
        /\ "schedule" \notin Tables(SchemaAt[k - 1]) <=> k < 6
    BY <1>1, TablesAre
  <1>6. /\ x.rev = k - 1 /\ x.schema = SchemaAt[k - 1]
        /\ x.company = IF w.company = NoRow \/ "company" \notin Tables(SchemaAt[k - 1]) THEN NoRow
                       ELSE Moved(w.company, "company", SchemaAt[k - 1], DownCompany(k, w.company))
        /\ \A e \in Employee :
              x.profile[e] = IF w.profile[e] = NoRow
                                  \/ "employee_profile" \notin Tables(SchemaAt[k - 1])
                             THEN NoRow
                             ELSE Moved(w.profile[e], "employee_profile", SchemaAt[k - 1],
                                        DownProfile(k, w.profile[e]))
        /\ \A e \in Employee :
              x.day[e] = IF w.day[e] = NoRow \/ "schedule" \notin Tables(SchemaAt[k - 1]) THEN NoRow
                         ELSE Moved(w.day[e], "schedule", SchemaAt[k - 1], <<>>)
    BY <1>4 DEF Rebuilt
  <1>7. /\ x.company = IF w.company = NoRow \/ k = 1 THEN NoRow
                       ELSE Moved(w.company, "company", SchemaAt[k - 1], DownCompany(k, w.company))
        /\ \A e \in Employee :
              x.profile[e] = IF w.profile[e] = NoRow \/ k = 1 THEN NoRow
                             ELSE Moved(w.profile[e], "employee_profile", SchemaAt[k - 1],
                                        DownProfile(k, w.profile[e]))
        /\ \A e \in Employee :
              x.day[e] = IF w.day[e] = NoRow \/ k < 6 THEN NoRow
                         ELSE Moved(w.day[e], "schedule", SchemaAt[k - 1], <<>>)
    BY <1>5, <1>6
  <1> QED
    BY <1>6, <1>7 DEF x, k

\* Good rows fit their columns.
LEMMA GoodFit ==
    ASSUME NEW w, w.rev \in 0..9, w.schema = SchemaAt[w.rev], RowsGood(w)
    PROVE  RowsFit(w)
  <1>1. \A t \in KeptTables : \A row : GoodRow(row, t, w.rev) => Fits(row, t, w.schema)
    <2> SUFFICES ASSUME NEW t \in KeptTables, NEW row, GoodRow(row, t, w.rev)
                 PROVE  Fits(row, t, SchemaAt[w.rev])
      OBVIOUS
    <2>1. DOMAIN row = Span(t, w.rev)
      BY DEF GoodRow
    <2>2. \A c \in DOMAIN row : (row[c] = Null => MayBeNull(t, c)) /\ HasRoom(c, row[c])
      BY DEF GoodRow, Holds
    <2> QED BY <2>1, <2>2, FitsIs
  <1> QED
    BY <1>1, TablesKept DEF RowsGood, RowsFit

\* An upgrade of good rows runs, and they stay good.
LEMMA UpGood ==
    ASSUME NEW w, Shape(w), w.rev \in 0..8, RowsGood(w)
    PROVE  RowsGood(Upgraded(w)) /\ UpgradeRuns(w)
  <1> DEFINE x == Upgraded(w)
             k == w.rev + 1
  <1>1. /\ k \in 1..9 /\ x.rev = k /\ x.schema = SchemaAt[k]
        /\ x.company = IF w.company = NoRow THEN NoRow
                       ELSE Moved(w.company, "company", SchemaAt[k], UpCompany(k, w.company))
        /\ \A e \in Employee :
              x.profile[e] = IF w.profile[e] = NoRow THEN NoRow
                             ELSE Moved(w.profile[e], "employee_profile", SchemaAt[k],
                                        UpProfile(k, w.profile[e]))
        /\ \A e \in Employee :
              x.day[e] = IF w.day[e] = NoRow \/ k < 5 THEN NoRow
                         ELSE Moved(w.day[e], "schedule", SchemaAt[k], UpDay(k, w.profile[e]))
    BY UpFields
  <1>2. k - 1 = w.rev
    OBVIOUS
  <1>3. w.schema = SchemaAt[k - 1]
    BY <1>2 DEF Shape
  <1> HIDE DEF x, k
  <1>4. x.company # NoRow => x.rev >= 1 /\ GoodRow(x.company, "company", x.rev)
    <2>1. ASSUME w.company # NoRow PROVE GoodRow(x.company, "company", k)
      <3>1. k \in 2..9 /\ GoodRow(w.company, "company", k - 1)
        BY <1>1, <1>2, <2>1 DEF RowsGood
      <3> QED BY <1>1, <2>1, <3>1, CompanyUp
    <2> QED BY <1>1, <2>1
  <1>5. ASSUME NEW e \in Employee
        PROVE  /\ x.profile[e] # NoRow <=> w.profile[e] # NoRow
               /\ x.profile[e] # NoRow => GoodRow(x.profile[e], "employee_profile", k)
    <2>1. ASSUME w.profile[e] # NoRow
          PROVE  GoodRow(x.profile[e], "employee_profile", k) /\ x.profile[e] # NoRow
      <3>1. k \in 2..9 /\ GoodRow(w.profile[e], "employee_profile", k - 1)
        BY <1>1, <1>2, <2>1 DEF RowsGood
      <3> QED BY <1>1, <2>1, <3>1, ProfileUp
    <2> QED BY <1>1, <2>1
  <1>6. ASSUME NEW e \in Employee, x.day[e] # NoRow
        PROVE  k >= 5 /\ x.profile[e] # NoRow /\ GoodRow(x.day[e], "schedule", k)
    <2>1. w.day[e] # NoRow
      BY <1>1, <1>6
    <2>2. /\ k \in 6..9 /\ w.profile[e] # NoRow /\ GoodRow(w.day[e], "schedule", k - 1)
          /\ GoodRow(w.profile[e], "employee_profile", k - 1)
      BY <1>1, <1>2, <2>1 DEF RowsGood
    <2>3. GoodRow(x.day[e], "schedule", k)
      BY <1>1, <1>6, <2>2, DayUp
    <2> QED BY <1>5, <2>2, <2>3
  <1>7. RowsGood(x)
    BY <1>1, <1>4, <1>5, <1>6 DEF RowsGood
  <1>8. RowsFit(x)
    <2>1. x.rev \in 0..9 /\ x.schema = SchemaAt[x.rev]
      BY <1>1
    <2> QED BY <1>7, <2>1, GoodFit
  <1>9. Changeable(w.schema, UpDrops[k], UpAdds[k])
    BY <1>1, <1>3, SchemasChange
  <1> QED
    BY <1>7, <1>8, <1>9 DEF UpgradeRuns, x, k

\* A downgrade of good rows runs unless a name is too long, and they stay good.
LEMMA DownGood ==
    ASSUME NEW w, Shape(w), w.rev \in 1..9, RowsGood(w)
    PROVE  /\ RowsFit(Downgraded(w)) => RowsGood(Downgraded(w))
           /\ DowngradeRuns(w) \/ TooLong(w)
  <1> DEFINE x == Downgraded(w)
             k == w.rev
  <1>1. /\ x.rev = k - 1 /\ x.schema = SchemaAt[k - 1]
        /\ x.company = IF w.company = NoRow \/ k = 1 THEN NoRow
                       ELSE Moved(w.company, "company", SchemaAt[k - 1], DownCompany(k, w.company))
        /\ \A e \in Employee :
              x.profile[e] = IF w.profile[e] = NoRow \/ k = 1 THEN NoRow
                             ELSE Moved(w.profile[e], "employee_profile", SchemaAt[k - 1],
                                        DownProfile(k, w.profile[e]))
        /\ \A e \in Employee :
              x.day[e] = IF w.day[e] = NoRow \/ k < 6 THEN NoRow
                         ELSE Moved(w.day[e], "schedule", SchemaAt[k - 1], <<>>)
    BY DownFields
  <1>2. k \in 1..9 /\ k - 1 \in 0..9 /\ w.schema = SchemaAt[k]
    BY DEF Shape
  <1> HIDE DEF x
  <1>3. ASSUME x.company # NoRow
        PROVE  /\ k \in 2..9 /\ DOMAIN x.company = Span("company", k - 1)
               /\ \A c \in DOMAIN x.company : Holds("company", c, x.company[c])
               /\ (\A c \in DOMAIN x.company : HasRoom(c, x.company[c])) \/ TooLong(w)
    <2>1. w.company # NoRow /\ k \in 2..9
      BY <1>1, <1>2, <1>3
    <2>2. GoodRow(w.company, "company", k)
      BY <2>1 DEF RowsGood
    <2> QED BY <1>1, <2>1, <2>2, CompanyDown DEF TooLong
  <1>4. ASSUME NEW e \in Employee, x.profile[e] # NoRow
        PROVE  /\ k \in 2..9 /\ DOMAIN x.profile[e] = Span("employee_profile", k - 1)
               /\ \A c \in DOMAIN x.profile[e] : Holds("employee_profile", c, x.profile[e][c])
               /\ (\A c \in DOMAIN x.profile[e] : HasRoom(c, x.profile[e][c])) \/ TooLong(w)
    <2>1. w.profile[e] # NoRow /\ k \in 2..9
      BY <1>1, <1>2, <1>4
    <2>2. GoodRow(w.profile[e], "employee_profile", k)
      BY <2>1 DEF RowsGood
    <2> QED BY <1>1, <2>1, <2>2, ProfileDown DEF TooLong
  <1>5. ASSUME NEW e \in Employee, x.day[e] # NoRow
        PROVE  k \in 6..9 /\ x.profile[e] # NoRow /\ GoodRow(x.day[e], "schedule", k - 1)
    <2>1. w.day[e] # NoRow /\ k \in 6..9
      BY <1>1, <1>2, <1>5
    <2>2. /\ w.profile[e] # NoRow /\ GoodRow(w.day[e], "schedule", k)
          /\ GoodRow(w.profile[e], "employee_profile", k)
      BY <2>1 DEF RowsGood
    <2>3. x.profile[e] # NoRow
      BY <1>1, <2>1, <2>2, ProfileDown
    <2>4. GoodRow(x.day[e], "schedule", k - 1)
      BY <1>1, <2>1, <2>2, DayDown
    <2> QED BY <2>1, <2>3, <2>4
  <1> DEFINE Room == /\ x.company # NoRow => \A c \in DOMAIN x.company : HasRoom(c, x.company[c])
                     /\ \A e \in Employee : x.profile[e] # NoRow =>
                           \A c \in DOMAIN x.profile[e] : HasRoom(c, x.profile[e][c])
  <1>6. Room => RowsGood(x)
    <2> SUFFICES ASSUME Room PROVE RowsGood(x)
      OBVIOUS
    <2>1. x.company # NoRow => k - 1 >= 1 /\ GoodRow(x.company, "company", k - 1)
      BY <1>3 DEF GoodRow
    <2>2. \A e \in Employee : x.profile[e] # NoRow =>
              k - 1 >= 1 /\ GoodRow(x.profile[e], "employee_profile", k - 1)
      BY <1>4 DEF GoodRow
    <2>3. \A e \in Employee : x.day[e] # NoRow =>
              k - 1 >= 5 /\ x.profile[e] # NoRow /\ GoodRow(x.day[e], "schedule", k - 1)
      BY <1>5
    <2> QED BY <1>1, <2>1, <2>2, <2>3 DEF RowsGood
  <1>7. RowsFit(x) => Room
    <2> SUFFICES ASSUME RowsFit(x) PROVE Room
      OBVIOUS
    <2>1. x.company # NoRow => \A c \in DOMAIN x.company : HasRoom(c, x.company[c])
      <3> SUFFICES ASSUME x.company # NoRow
                   PROVE  \A c \in DOMAIN x.company : HasRoom(c, x.company[c])
        OBVIOUS
      <3>1. Fits(x.company, "company", SchemaAt[k - 1])
        BY <1>1 DEF RowsFit
      <3> QED BY <1>2, <1>3, <3>1, FitsIs, TablesKept
    <2>2. ASSUME NEW e \in Employee, x.profile[e] # NoRow
          PROVE  \A c \in DOMAIN x.profile[e] : HasRoom(c, x.profile[e][c])
      <3>1. Fits(x.profile[e], "employee_profile", SchemaAt[k - 1])
        BY <1>1, <2>2 DEF RowsFit
      <3> QED BY <1>2, <1>4, <2>2, <3>1, FitsIs, TablesKept
    <2> QED BY <2>1, <2>2
  <1>8. Room \/ TooLong(w)
    BY <1>3, <1>4
  <1> HIDE DEF Room
  <1>9. Room => RowsFit(x)
    <2>1. x.rev \in 0..9 /\ x.schema = SchemaAt[x.rev]
      BY <1>1, <1>2
    <2> QED BY <1>6, <2>1, GoodFit
  <1>10. /\ Changeable(w.schema, DownDrops[w.rev], DownAdds[w.rev])
         /\ Droppable(w.schema, DropOrder(w.rev))
    BY <1>2, SchemasChange, TablesDrop
  <1> QED
    BY <1>6, <1>7, <1>8, <1>9, <1>10 DEF DowngradeRuns, x

-----------------------------------------------------------------------------
(***************************************************************************)
(* What was written is kept.                                               *)
(***************************************************************************)
Rates == {"rate_type", "currency"}

\* What an employee's row and day at revision r keep of what was written, l being the
\* lowest revision since.
Keeps(is, day, was, d, r, l) ==
    /\ is # NoRow <=> was # NoRow /\ l >= 1
    /\ is # NoRow =>
          /\ WordsOf(is) = WordsOf(was)
          /\ \A c \in Rates \cup {"phone", "avatar_key"} : c \in DOMAIN is =>
                is[c] = IF l >= Since("employee_profile", c) THEN was[c] ELSE Null
    /\ day # NoRow <=> d # NoRow /\ l >= 5
    /\ day # NoRow =>
          \A c \in Rates : r >= Since("schedule", c) =>
              day[c] = IF l >= Since("schedule", c) THEN d[c] ELSE is[c]

\* When the columns were brought that a release fills in.
LEMMA SinceIs ==
    /\ Since("employee_profile", "rate_type") = 1 /\ Since("employee_profile", "currency") = 1
    /\ Since("employee_profile", "phone") = 3 /\ Since("employee_profile", "avatar_key") = 7
    /\ Since("schedule", "rate_type") = 6 /\ Since("schedule", "currency") = 8
  BY DEF Since

\* One revision up nothing is lost of what there was, and what is new is NULL.
LEMMA UpKeeps ==
    ASSUME NEW w, Shape(w), w.rev \in 0..8, RowsGood(w),
           NEW e \in Employee, NEW was, NEW d, NEW l \in 0..w.rev,
           Keeps(w.profile[e], w.day[e], was, d, w.rev, l)
    PROVE  LET x == Upgraded(w)
           IN Keeps(x.profile[e], x.day[e], was, d, x.rev, l)
  <1> DEFINE x == Upgraded(w)
             k == w.rev + 1
             p == w.profile[e]
             q == x.profile[e]
             day == w.day[e]
             next == x.day[e]
  <1>1. /\ k \in 1..9 /\ x.rev = k
        /\ q = IF p = NoRow THEN NoRow
               ELSE Moved(p, "employee_profile", SchemaAt[k], UpProfile(k, p))
        /\ next = IF day = NoRow \/ k < 5 THEN NoRow
                  ELSE Moved(day, "schedule", SchemaAt[k], UpDay(k, p))
    BY UpFields
  <1>2. /\ k - 1 = w.rev /\ l \in 0..(k - 1)
        /\ p # NoRow => k - 1 >= 1 /\ GoodRow(p, "employee_profile", k - 1)
        /\ day # NoRow => k - 1 >= 5 /\ p # NoRow /\ GoodRow(day, "schedule", k - 1)
        /\ Keeps(p, day, was, d, k - 1, l)
    BY DEF RowsGood
  <1> HIDE DEF x, k, p, q, day, next
  <1>3. ASSUME p # NoRow
        PROVE  /\ q # NoRow /\ WordsOf(q) = WordsOf(p) /\ k \in 2..9
               /\ \A c \in Rates \cup {"phone", "avatar_key"} : c \in DOMAIN q =>
                     q[c] = IF c \in DOMAIN p THEN p[c] ELSE Null
               /\ DOMAIN p = Span("employee_profile", k - 1)
               /\ DOMAIN q = Span("employee_profile", k)
               /\ \A c \in Rates : c \in DOMAIN p /\ q[c] = p[c]
    <2>1. k \in 2..9 /\ GoodRow(p, "employee_profile", k - 1) /\ k - 1 \in 1..9
      BY <1>1, <1>2, <1>3
    <2>2. /\ GoodRow(q, "employee_profile", k) /\ q # NoRow
          /\ WordsOf(q) = WordsOf(p)
          /\ \A c \in {"rate_type", "currency", "phone", "avatar_key"} : c \in DOMAIN q =>
                q[c] = IF c \in DOMAIN p THEN p[c] ELSE Null
      BY <1>1, <1>3, <2>1, ProfileUp
    <2>3. \A c \in Rates : c \in DOMAIN p /\ c \in DOMAIN q
      BY <2>1, <2>2, RateIsThere DEF Rates
    <2> QED BY <2>1, <2>2, <2>3 DEF GoodRow, Rates
  <1>4. q # NoRow <=> was # NoRow /\ l >= 1
    BY <1>1, <1>2, <1>3 DEF Keeps
  <1>5. ASSUME q # NoRow
        PROVE  /\ WordsOf(q) = WordsOf(was)
               /\ \A c \in Rates \cup {"phone", "avatar_key"} : c \in DOMAIN q =>
                     q[c] = IF l >= Since("employee_profile", c) THEN was[c] ELSE Null
    <2>1. p # NoRow
      BY <1>1, <1>5
    <2>2. WordsOf(q) = WordsOf(was)
      BY <1>2, <1>3, <2>1 DEF Keeps
    <2>3. ASSUME NEW c \in Rates \cup {"phone", "avatar_key"}, c \in DOMAIN q
          PROVE  q[c] = IF l >= Since("employee_profile", c) THEN was[c] ELSE Null
      <3>1. CASE c \in DOMAIN p
        BY <1>2, <1>3, <2>1, <2>3, <3>1 DEF Keeps
      <3>2. CASE c \notin DOMAIN p
        <4>1. q[c] = Null
          BY <1>3, <2>1, <2>3, <3>2
        <4>2. /\ c \in Span("employee_profile", k) /\ c \notin Span("employee_profile", k - 1)
          BY <1>3, <2>1, <2>3, <3>2
        <4>3. k \in 0..9 /\ k - 1 \in 0..9 /\ k >= 2
          BY <1>3, <2>1
        <4>4. (c = "phone" /\ k = 3) \/ (c = "avatar_key" /\ k = 7)
          BY <4>2, <4>3, SpansAre DEF Rates
        <4>5. ~(l >= Since("employee_profile", c))
          BY <1>2, <4>4, SinceIs
        <4> QED BY <4>1, <4>5
      <3> QED BY <3>1, <3>2
    <2> QED BY <2>2, <2>3
  <1>6. ASSUME day # NoRow
        PROVE  /\ next # NoRow /\ k \in 6..9 /\ p # NoRow
               /\ next.rate_type = IF k = 6 THEN p.rate_type ELSE day.rate_type
               /\ k >= 8 => next.currency = IF k = 8 THEN p.currency ELSE day.currency
    <2>1. /\ k \in 6..9 /\ GoodRow(day, "schedule", k - 1)
          /\ GoodRow(p, "employee_profile", k - 1) /\ p # NoRow
      BY <1>1, <1>2, <1>6
    <2> QED BY <1>1, <1>6, <2>1, DayUp
  <1>7. next # NoRow <=> d # NoRow /\ l >= 5
    BY <1>1, <1>2, <1>6 DEF Keeps
  <1>8. ASSUME next # NoRow
        PROVE  \A c \in Rates : k >= Since("schedule", c) =>
                   next[c] = IF l >= Since("schedule", c) THEN d[c] ELSE q[c]
    <2>1. day # NoRow
      BY <1>1, <1>8
    <2>2. k >= 6 => next["rate_type"] = IF l >= 6 THEN d["rate_type"] ELSE q["rate_type"]
      <3>1. q["rate_type"] = p["rate_type"]
        BY <1>3, <1>6, <2>1 DEF Rates
      <3>2. k - 1 >= 6 => day["rate_type"] = IF l >= 6 THEN d["rate_type"] ELSE p["rate_type"]
        BY <1>2, <2>1, SinceIs DEF Keeps, Rates
      <3> QED BY <1>2, <1>6, <2>1, <3>1, <3>2
    <2>3. k >= 8 => next["currency"] = IF l >= 8 THEN d["currency"] ELSE q["currency"]
      <3>1. q["currency"] = p["currency"]
        BY <1>3, <1>6, <2>1 DEF Rates
      <3>2. k - 1 >= 8 => day["currency"] = IF l >= 8 THEN d["currency"] ELSE p["currency"]
        BY <1>2, <2>1, SinceIs DEF Keeps, Rates
      <3> QED BY <1>2, <1>6, <2>1, <3>1, <3>2
    <2> QED BY <2>2, <2>3, SinceIs DEF Rates
  <1>9. Keeps(q, next, was, d, k, l)
    BY <1>4, <1>5, <1>7, <1>8 DEF Keeps
  <1> QED
    BY <1>1, <1>9 DEF x, q, next

\* The lower of two revisions.
Lower(r, l) == IF r < l THEN r ELSE l

\* One revision down what goes is what the revision brought.
LEMMA DownKeeps ==
    ASSUME NEW w, Shape(w), w.rev \in 1..9, RowsGood(w),
           NEW e \in Employee, NEW was, NEW d, NEW l \in 0..w.rev,
           Keeps(w.profile[e], w.day[e], was, d, w.rev, l)
    PROVE  LET x == Downgraded(w)
           IN Keeps(x.profile[e], x.day[e], was, d, x.rev, Lower(x.rev, l))
  <1> DEFINE x == Downgraded(w)
             k == w.rev
             m == Lower(k - 1, l)
             p == w.profile[e]
             q == x.profile[e]
             day == w.day[e]
             next == x.day[e]
  <1>1. /\ x.rev = k - 1
        /\ q = IF p = NoRow \/ k = 1 THEN NoRow
               ELSE Moved(p, "employee_profile", SchemaAt[k - 1], DownProfile(k, p))
        /\ next = IF day = NoRow \/ k < 6 THEN NoRow
                  ELSE Moved(day, "schedule", SchemaAt[k - 1], <<>>)
    BY DownFields
  <1>2. /\ k \in 1..9 /\ l \in 0..k
        /\ p # NoRow => GoodRow(p, "employee_profile", k)
        /\ day # NoRow => k >= 5 /\ p # NoRow /\ GoodRow(day, "schedule", k)
        /\ Keeps(p, day, was, d, k, l)
    BY DEF RowsGood
  <1> HIDE DEF x, k, p, q, day, next
  <1>3. /\ \A r \in 1..9 : r <= k - 1 => (m >= r <=> l >= r)
        /\ m >= k <=> FALSE
        /\ m \in 0..9 /\ m <= k - 1
    BY <1>2 DEF Lower
  <1> HIDE DEF m
  <1>4. ASSUME p # NoRow, k # 1
        PROVE  /\ q # NoRow /\ WordsOf(q) = WordsOf(p) /\ k \in 2..9
               /\ \A c \in Rates \cup {"phone", "avatar_key"} : c \in DOMAIN q =>
                     c \in DOMAIN p /\ q[c] = p[c]
               /\ DOMAIN q = Span("employee_profile", k - 1)
    <2>1. k \in 2..9 /\ GoodRow(p, "employee_profile", k)
      BY <1>2, <1>4
    <2> QED BY <1>1, <1>4, <2>1, ProfileDown DEF Rates
  <1>5. q # NoRow <=> was # NoRow /\ m >= 1
    BY <1>1, <1>2, <1>3, <1>4 DEF Keeps
  <1>6. ASSUME q # NoRow
        PROVE  /\ WordsOf(q) = WordsOf(was)
               /\ \A c \in Rates \cup {"phone", "avatar_key"} : c \in DOMAIN q =>
                     q[c] = IF m >= Since("employee_profile", c) THEN was[c] ELSE Null
    <2>1. p # NoRow /\ k # 1
      BY <1>1, <1>6
    <2>2. WordsOf(q) = WordsOf(was)
      BY <1>2, <1>4, <2>1 DEF Keeps
    <2>3. ASSUME NEW c \in Rates \cup {"phone", "avatar_key"}, c \in DOMAIN q
          PROVE  q[c] = IF m >= Since("employee_profile", c) THEN was[c] ELSE Null
      <3>1. q[c] = IF l >= Since("employee_profile", c) THEN was[c] ELSE Null
        BY <1>2, <1>4, <2>1, <2>3 DEF Keeps
      <3>2. Since("employee_profile", c) \in 1..9 /\ Since("employee_profile", c) <= k - 1
        <4>1. c \in Span("employee_profile", k - 1) /\ k - 1 \in 0..9
          BY <1>4, <2>1, <2>3
        <4> QED BY <4>1, SpansAre, SinceIs DEF Rates
      <3> QED BY <1>3, <3>1, <3>2
    <2> QED BY <2>2, <2>3
  <1>7. ASSUME day # NoRow, k >= 6
        PROVE  /\ next # NoRow /\ p # NoRow
               /\ \A c \in Rates : k - 1 >= Since("schedule", c) => next[c] = day[c]
    <2>1. k \in 6..9 /\ GoodRow(day, "schedule", k) /\ p # NoRow
      BY <1>2, <1>7
    <2>2. /\ GoodRow(next, "schedule", k - 1) /\ next # NoRow
          /\ \A c \in DOMAIN next : next[c] = day[c]
      BY <1>1, <1>7, <2>1, DayDown
    <2>3. \A c \in Rates : k - 1 >= Since("schedule", c) => c \in DOMAIN next
      <3>1. k - 1 \in 0..9 /\ DOMAIN next = Span("schedule", k - 1)
        BY <2>1, <2>2 DEF GoodRow
      <3> QED BY <3>1, SpansAre, SinceIs DEF Rates
    <2> QED BY <2>1, <2>2, <2>3
  <1>8. next # NoRow <=> d # NoRow /\ m >= 5
    BY <1>1, <1>2, <1>3, <1>7 DEF Keeps
  <1>9. ASSUME next # NoRow
        PROVE  \A c \in Rates : k - 1 >= Since("schedule", c) =>
                   next[c] = IF m >= Since("schedule", c) THEN d[c] ELSE q[c]
    <2>1. day # NoRow /\ k >= 6
      BY <1>1, <1>2, <1>9
    <2>2. \A c \in Rates : q[c] = p[c]
      <3>1. p # NoRow /\ k # 1
        BY <1>7, <2>1
      <3>2. k - 1 \in 0..9 /\ k - 1 >= 1
        BY <1>2, <2>1
      <3>3. \A c \in Rates : c \in Span("employee_profile", k - 1)
        BY <3>2, SpansAre DEF Rates
      <3> QED BY <1>4, <3>1, <3>3
    <2> SUFFICES ASSUME NEW c \in Rates, k - 1 >= Since("schedule", c)
                 PROVE  next[c] = IF m >= Since("schedule", c) THEN d[c] ELSE q[c]
      OBVIOUS
    <2>3. Since("schedule", c) \in 1..9
      BY SinceIs DEF Rates
    <2>4. day[c] = IF l >= Since("schedule", c) THEN d[c] ELSE p[c]
      BY <1>2, <2>1, <2>3 DEF Keeps
    <2> QED BY <1>3, <1>7, <2>1, <2>2, <2>3, <2>4
  <1>10. Keeps(q, next, was, d, k - 1, m)
    BY <1>5, <1>6, <1>8, <1>9 DEF Keeps
  <1>11. m = Lower(x.rev, l)
    BY <1>1 DEF m
  <1> QED
    BY <1>1, <1>10, <1>11 DEF x, q, next

\* What is committed, and what a command sees if it were, keep what was written.
RowsKeep(w) ==
    \A e \in Employee :
        Keeps(w.profile[e], w.day[e], told[e].profile, told[e].day, w.rev, Lower(w.rev, low[e]))

\* The ghosts are by employee.
Told == DOMAIN low = Employee /\ DOMAIN told = Employee

\* Rows are good and keep what was written, in the database and in the transaction.
KInv ==
    /\ IInv /\ Told
    /\ cmd = "up" => work.rev >= db.rev
    /\ RowsGood(db) /\ RowsGood(work)
    /\ RowsKeep(db) /\ RowsKeep(work)

\* The lowest revision is no higher than where the database is.
LEMMA LowIs ==
    ASSUME IInv
    PROVE  /\ db.rev \in 0..9 /\ work.rev \in 0..9
           /\ \A e \in Employee :
                 /\ low[e] \in 0..db.rev /\ Lower(db.rev, low[e]) = low[e]
                 /\ Lower(work.rev, low[e]) \in 0..work.rev
                 /\ work.rev >= db.rev => Lower(work.rev, low[e]) = low[e]
  <1>1. db.rev \in 0..9 /\ work.rev \in 0..9 /\ \A e \in Employee : low[e] \in 0..db.rev
    BY DEF IInv, TypeOK, WellFormed, LastRevision
  <1> QED
    BY <1>1 DEF Lower

\* An empty database.
LEMMA InitKInv == Init => KInv
  <1> SUFFICES ASSUME Init PROVE KInv
    OBVIOUS
  <1>1. /\ db.rev = 0 /\ db.company = NoRow /\ work = db /\ cmd = "idle"
        /\ \A e \in Employee : db.profile[e] = NoRow /\ db.day[e] = NoRow
    BY DEF Init, NoRows
  <1>2. Told /\ \A e \in Employee : low[e] = 0 /\ told[e].profile = NoRow /\ told[e].day = NoRow
    BY DEF Init, Told
  <1>3. RowsGood(db)
    BY <1>1 DEF RowsGood
  <1>4. RowsKeep(db)
    BY <1>1, <1>2 DEF RowsKeep, Keeps, Lower
  <1> QED
    BY <1>1, <1>2, <1>3, <1>4, InitIInv DEF KInv

\* A step of a command that changes only what it sees.
LEMMA WorkStepsKeep ==
    ASSUME KInv, IInv', NEW x, work' = x, RowsGood(x), RowsKeep(x),
           cmd = "up" => x.rev >= db.rev,
           UNCHANGED <<db, cmd, target, told, low, writes>>
    PROVE  KInv'
  <1>1. Told' /\ RowsGood(db)' /\ RowsGood(work)' /\ (cmd = "up" => work.rev >= db.rev)'
    BY DEF KInv, Told
  <1>2. RowsKeep(db)' /\ RowsKeep(work)'
    BY DEF KInv, RowsKeep
  <1> QED
    BY <1>1, <1>2 DEF KInv

\* One revision up.
LEMMA UpgradeStepKeepsRows == ASSUME KInv, UpgradeStep PROVE KInv'
  <1> DEFINE x == Upgraded(work)
  <1>1. work.rev \in 0..8 /\ Shape(work) /\ IInv
    BY DEF UpgradeStep, KInv, IInv, TypeOK, WellFormed, LastRevision
  <1>2. RowsGood(x) /\ x.rev = work.rev + 1
    BY <1>1, UpGood, UpFields DEF KInv
  <1>3. work.rev >= db.rev /\ x.rev >= db.rev /\ x.rev >= work.rev
    BY <1>1, <1>2, LowIs DEF UpgradeStep, KInv
  <1>4. RowsKeep(x)
    <2> SUFFICES ASSUME NEW e \in Employee
                 PROVE  Keeps(x.profile[e], x.day[e], told[e].profile, told[e].day, x.rev,
                              Lower(x.rev, low[e]))
      BY DEF RowsKeep
    <2>1. /\ low[e] \in 0..work.rev /\ Lower(work.rev, low[e]) = low[e]
          /\ Lower(x.rev, low[e]) = low[e]
      BY <1>1, <1>2, <1>3, LowIs DEF Lower
    <2>2. Keeps(work.profile[e], work.day[e], told[e].profile, told[e].day, work.rev, low[e])
      BY <2>1 DEF KInv, RowsKeep
    <2>3. Keeps(x.profile[e], x.day[e], told[e].profile, told[e].day, x.rev, low[e])
      BY <1>1, <2>1, <2>2, UpKeeps DEF KInv
    <2> QED BY <2>1, <2>3
  <1>5. work' = x /\ UNCHANGED <<db, cmd, target, told, low, writes>>
    BY DEF UpgradeStep
  <1>6. IInv'
    BY <1>1, UpgradeStepKeeps
  <1> HIDE DEF x
  <1> QED
    BY <1>2, <1>3, <1>4, <1>5, <1>6, WorkStepsKeep

\* One revision down.
LEMMA DowngradeStepKeepsRows == ASSUME KInv, DowngradeStep PROVE KInv'
  <1> DEFINE x == Downgraded(work)
  <1>1. work.rev \in 1..9 /\ Shape(work) /\ IInv /\ cmd = "down"
    BY DEF DowngradeStep, KInv, IInv, TypeOK, WellFormed, LastRevision
  <1>2. RowsGood(x) /\ x.rev = work.rev - 1
    <2>1. RowsFit(x)
      BY DEF DowngradeStep, DowngradeRuns
    <2> QED BY <1>1, <2>1, DownGood, DownFields DEF KInv
  <1>3. RowsKeep(x)
    <2> SUFFICES ASSUME NEW e \in Employee
                 PROVE  Keeps(x.profile[e], x.day[e], told[e].profile, told[e].day, x.rev,
                              Lower(x.rev, low[e]))
      BY DEF RowsKeep
    <2> DEFINE l == Lower(work.rev, low[e])
    <2>1. l \in 0..work.rev /\ Lower(x.rev, low[e]) = Lower(x.rev, l)
      BY <1>1, <1>2, LowIs DEF Lower
    <2>2. Keeps(work.profile[e], work.day[e], told[e].profile, told[e].day, work.rev, l)
      BY DEF KInv, RowsKeep
    <2> HIDE DEF l
    <2>3. Keeps(x.profile[e], x.day[e], told[e].profile, told[e].day, x.rev, Lower(x.rev, l))
      BY <1>1, <2>1, <2>2, DownKeeps DEF KInv
    <2> QED BY <2>1, <2>3
  <1>4. work' = x /\ UNCHANGED <<db, cmd, target, told, low, writes>>
    BY DEF DowngradeStep
  <1>5. IInv'
    BY <1>1, DowngradeStepKeeps
  <1> HIDE DEF x
  <1> QED
    BY <1>1, <1>2, <1>3, <1>4, <1>5, WorkStepsKeep

\* A command comes in, commits or ends.
LEMMA CommandsKeepRows ==
    ASSUME KInv,
           \/ \E c \in {"up", "down"}, r \in Targets(db.rev) : Command(c, r)
           \/ CommandCommits \/ CommandEnds
    PROVE  KInv'
  <1>1. IInv /\ IInv'
    BY CommandsKeep DEF KInv
  <1>2. CASE \E c \in {"up", "down"}, r \in Targets(db.rev) : Command(c, r)
    <2>1. cmd = "idle" /\ UNCHANGED <<db, work, told, low, writes>>
      BY <1>2 DEF Command
    <2>2. work = db
      BY <1>1, <2>1 DEF IInv, TypeOK
    <2>3. (work.rev >= db.rev)'
      BY <1>1, <2>1, <2>2, LowIs
    <2>4. RowsKeep(db)' /\ RowsKeep(work)'
      BY <2>1 DEF RowsKeep, KInv
    <2> QED BY <1>1, <2>1, <2>3, <2>4 DEF KInv, Told
  <1>3. CASE CommandCommits
    <2>1. /\ db' = work /\ work' = work /\ told' = told /\ target = work.rev /\ cmd' = "idle"
          /\ low' = [e \in Employee |-> Lower(target, low[e])]
      BY <1>3 DEF CommandCommits, Lower
    <2>2. \A e \in Employee : Lower(work.rev, low'[e]) = Lower(work.rev, low[e])
      BY <1>1, <2>1, LowIs DEF Lower
    <2>3. RowsKeep(db)' /\ RowsKeep(work)'
      BY <2>1, <2>2 DEF RowsKeep, KInv
    <2> QED BY <1>1, <2>1, <2>3 DEF KInv, Told
  <1>4. CASE CommandEnds
    <2>1. work' = db /\ db' = db /\ told' = told /\ low' = low /\ cmd' = "idle"
      BY <1>4 DEF CommandEnds
    <2>2. RowsKeep(db)' /\ RowsKeep(work)'
      BY <2>1 DEF RowsKeep, KInv
    <2> QED BY <1>1, <2>1, <2>2 DEF KInv, Told
  <1> QED
    BY <1>2, <1>3, <1>4

\* The company's row is as good.
LEMMA WriteCompanyKeepsRows == ASSUME KInv, NEW s \in Contacts, WriteCompany(s) PROVE KInv'
  <1>1. IInv /\ IInv'
    BY WriteCompanyKeeps DEF KInv
  <1> DEFINE row == [c \in Kept("company") \cap ColumnsOf("company", db.schema) |-> s]
  <1>2. /\ cmd = "idle" /\ Fits(row, "company", db.schema) /\ db.rev \in 1..9
        /\ db' = [db EXCEPT !.company = row] /\ work' = db'
        /\ UNCHANGED <<cmd, target, told, low>>
    BY MigrationsAssumption, Zenon DEF WriteCompany
  <1>3. /\ db'.rev = db.rev /\ db'.company = row
        /\ db'.profile = db.profile /\ db'.day = db.day
    BY <1>1, <1>2 DEF IInv, Shape
  <1>4. GoodRow(row, "company", db.rev)
    <2>1. db.schema = SchemaAt[db.rev] /\ db.rev \in 0..9
      BY <1>1, <1>2 DEF IInv, Shape
    <2>2. Kept("company") \cap ColumnsOf("company", db.schema) = Span("company", db.rev)
      BY <2>1, SpanIs, TablesKept
    <2>3. DOMAIN row = Span("company", db.rev) /\ \A c \in DOMAIN row : row[c] = s
      BY <2>2
    <2>4. \A c \in DOMAIN row : (row[c] = Null => MayBeNull("company", c)) /\ HasRoom(c, row[c])
      <3> HIDE DEF row
      <3> QED BY <1>2, <2>1, <2>3, FitsIs, TablesKept
    <2>5. s \in Seq(Word) /\ s \in Value
      BY MigrationsAssumption, ValuesAre
    <2> HIDE DEF row
    <2> QED BY <2>3, <2>4, <2>5 DEF GoodRow, Holds
  <1> HIDE DEF row
  <1>5. RowsGood(db)'
    <2>1. RowsGood(db)
      BY DEF KInv
    <2> QED BY <1>2, <1>3, <1>4, <2>1 DEF RowsGood
  <1>6. RowsKeep(db)'
    BY <1>2, <1>3 DEF KInv, RowsKeep
  <1>7. RowsGood(work)' /\ RowsKeep(work)'
    BY <1>2, <1>5, <1>6 DEF RowsGood, RowsKeep
  <1> QED
    BY <1>1, <1>2, <1>5, <1>6, <1>7 DEF KInv, Told

\* A row of good values is a row.
LEMMA GoodIsRow ==
    ASSUME NEW t \in KeptTables, NEW r, NEW row, row = [c \in Span(t, r) |-> row[c]],
           GoodRow(row, t, r)
    PROVE  row # NoRow
  <1>1. row \in [Span(t, r) -> Value]
    BY DEF GoodRow, Holds
  <1>2. Span(t, r) \in SUBSET Kept(t)
    BY DEF Span
  <1> QED
    BY <1>1, <1>2, RowsAssumption DEF Value, KeptTables

\* A name that a release writes has the columns of its time, filled with texts.
LEMMA NamesAre ==
    ASSUME NEW name \in Names, db.rev \in 1..9
    PROVE  /\ db.rev < 4 => /\ DOMAIN name = {"last_name", "first_name", "patronymic"}
                            /\ name["last_name"] \in Seq(Word) /\ name["first_name"] \in Seq(Word)
                            /\ name["patronymic"] \in Seq(Word) \cup {Null}
           /\ db.rev >= 4 => DOMAIN name = {"full_name"} /\ name["full_name"] \in Seq(Word)
  <1>1. CASE db.rev < 4
    <2>1. name \in LegacyNames
      BY <1>1 DEF Names
    <2>2. name \in [last_name : Seq(Word), first_name : Seq(Word),
                   patronymic : Seq(Word) \cup {Null}]
      BY <2>1, MigrationsAssumption
    <2> QED BY <1>1, <2>2
  <1>2. CASE db.rev >= 4
    <2>1. PICK s \in FullNames : name = [full_name |-> s]
      BY <1>2 DEF Names
    <2>2. s \in Seq(Word)
      BY MigrationsAssumption
    <2> QED BY <1>2, <2>1, <2>2
  <1> QED
    BY <1>1, <1>2

\* The row that a release writes for an employee is good if it fits.
LEMMA WrittenRow ==
    ASSUME KInv, NEW e \in Employee, NEW name \in Names, db.rev \in 1..9
    PROVE  LET given == [phone |-> "phone", avatar_key |-> "key",
                         rate_type |-> PayOf[e][1], currency |-> PayOf[e][2]]
               row == [c \in Kept("employee_profile") \cap ColumnsOf("employee_profile", db.schema)
                          |-> IF c \in DOMAIN name THEN name[c] ELSE given[c]]
           IN Fits(row, "employee_profile", db.schema) =>
                  GoodRow(row, "employee_profile", db.rev) /\ row # NoRow
  <1> DEFINE given == [phone |-> "phone", avatar_key |-> "key",
                       rate_type |-> PayOf[e][1], currency |-> PayOf[e][2]]
             row == [c \in Kept("employee_profile") \cap ColumnsOf("employee_profile", db.schema)
                        |-> IF c \in DOMAIN name THEN name[c] ELSE given[c]]
  <1> SUFFICES ASSUME Fits(row, "employee_profile", db.schema)
               PROVE  GoodRow(row, "employee_profile", db.rev) /\ row # NoRow
    OBVIOUS
  <1>1. db.schema = SchemaAt[db.rev] /\ db.rev \in 0..9
    BY DEF KInv, IInv, Shape
  <1>2. Kept("employee_profile") \cap ColumnsOf("employee_profile", db.schema) =
            Span("employee_profile", db.rev)
    BY <1>1, SpanIs, TablesKept
  <1>3. /\ row = [c \in Span("employee_profile", db.rev) |-> row[c]]
        /\ DOMAIN row = Span("employee_profile", db.rev)
        /\ \A c \in DOMAIN row : row[c] = IF c \in DOMAIN name THEN name[c] ELSE given[c]
    BY <1>2
  <1> HIDE DEF row
  <1>4. \A c \in DOMAIN row :
            (row[c] = Null => MayBeNull("employee_profile", c)) /\ HasRoom(c, row[c])
    BY <1>1, <1>3, FitsIs, TablesKept
  <1>5. /\ given["phone"] \in Value /\ given["avatar_key"] \in Value
        /\ given["rate_type"] \in Value /\ given["currency"] \in Value
    <2>1. PayOf[e] \in Pays
      BY MigrationsAssumption
    <2>2. PayOf[e][1] \in Value /\ PayOf[e][2] \in Value
      BY <2>1 DEF Value
    <2> QED BY <2>2 DEF Value
  <1> HIDE DEF given
  <1>6. ASSUME NEW c \in DOMAIN row
        PROVE  /\ row[c] \in Value
               /\ c \in TextColumns => row[c] \in Seq(Word)
               /\ c = "patronymic" => row[c] \in Seq(Word) \cup {Null}
    <2>1. \/ c \in {"first_name", "last_name", "patronymic"} /\ db.rev <= 3
          \/ c \in {"rate_type", "currency"}
          \/ c = "full_name" /\ db.rev >= 4
          \/ c = "phone" \/ c = "avatar_key"
      BY <1>1, <1>3, SpansAre
    <2>2. CASE c \in {"first_name", "last_name", "patronymic"} /\ db.rev <= 3
      <3>1. /\ c \in DOMAIN name
            /\ name[c] \in Seq(Word) \cup {Null}
            /\ c # "patronymic" => name[c] \in Seq(Word)
        BY <2>2, NamesAre
      <3> QED BY <1>3, <2>2, <3>1, ValuesAre DEF TextColumns
    <2>3. CASE c = "full_name" /\ db.rev >= 4
      <3>1. c \in DOMAIN name /\ name[c] \in Seq(Word)
        BY <2>3, NamesAre
      <3> QED BY <1>3, <2>3, <3>1, ValuesAre
    <2>4. CASE c \in {"rate_type", "currency", "phone", "avatar_key"}
      <3>1. c \notin DOMAIN name
        BY <2>4, NamesAre
      <3>2. row[c] = given[c] /\ given[c] \in Value
        BY <1>3, <1>5, <2>4, <3>1
      <3> QED BY <2>4, <3>2 DEF TextColumns
    <2> QED BY <2>1, <2>2, <2>3, <2>4
  <1>7. GoodRow(row, "employee_profile", db.rev)
    <2> HIDE DEF KInv
    <2>1. \A c \in DOMAIN row : Holds("employee_profile", c, row[c]) /\ HasRoom(c, row[c])
      BY <1>4, <1>6 DEF Holds
    <2> QED BY <1>3, <2>1 DEF GoodRow
  <1> QED
    BY <1>3, <1>7, GoodIsRow, TablesKept

\* And the day that it schedules, once there are days.
LEMMA WrittenDay ==
    ASSUME KInv, NEW snap \in Pays, db.rev \in 1..9,
           NEW day, day = [c \in Kept("schedule") \cap ColumnsOf("schedule", db.schema)
                              |-> [rate_type |-> snap[1], currency |-> snap[2]][c]]
    PROVE  GoodRow(day, "schedule", db.rev) /\ day # NoRow
  <1>1. db.schema = SchemaAt[db.rev] /\ db.rev \in 0..9
    BY DEF KInv, IInv, Shape
  <1>2. Kept("schedule") \cap ColumnsOf("schedule", db.schema) = Span("schedule", db.rev)
    BY <1>1, SpanIs, TablesKept
  <1>3. /\ day = [c \in Span("schedule", db.rev) |-> day[c]]
        /\ DOMAIN day = Span("schedule", db.rev)
        /\ \A c \in DOMAIN day : day[c] = [rate_type |-> snap[1], currency |-> snap[2]][c]
    BY <1>2
  <1>4. \A c \in DOMAIN day :
            (day[c] = Null => MayBeNull("schedule", c)) /\ HasRoom(c, day[c])
    <2>1. Fits(day, "schedule", db.schema)
      BY DayFits
    <2> QED BY <1>1, <1>3, <2>1, FitsIs, TablesKept
  <1>5. \A c \in DOMAIN day : c = "rate_type" \/ c = "currency"
    BY <1>1, <1>3, SpansAre
  <1>6. snap[1] \in Value /\ snap[2] \in Value
    BY DEF Value
  <1>7. \A c \in DOMAIN day : day[c] \in Value /\ c \notin TextColumns /\ c # "patronymic"
    BY <1>3, <1>5, <1>6 DEF TextColumns
  <1>8. GoodRow(day, "schedule", db.rev)
    BY <1>3, <1>4, <1>7 DEF GoodRow, Holds
  <1> QED
    BY <1>3, <1>8, GoodIsRow, TablesKept

\* An employee's row and day are what is told.
LEMMA WriteEmployeeKeepsRows ==
    ASSUME KInv, NEW e \in Employee, NEW name \in Names, NEW snap \in Pays,
           WriteEmployee(e, name, snap)
    PROVE  KInv'
  <1>1. IInv /\ IInv'
    BY WriteEmployeeKeeps DEF KInv
  <1> DEFINE given == [phone |-> "phone", avatar_key |-> "key",
                       rate_type |-> PayOf[e][1], currency |-> PayOf[e][2]]
             row == [c \in Kept("employee_profile") \cap ColumnsOf("employee_profile", db.schema)
                        |-> IF c \in DOMAIN name THEN name[c] ELSE given[c]]
             dated == [c \in Kept("schedule") \cap ColumnsOf("schedule", db.schema)
                          |-> [rate_type |-> snap[1], currency |-> snap[2]][c]]
             day == IF "schedule" \notin Tables(db.schema) THEN NoRow ELSE dated
  <1>2. /\ cmd = "idle" /\ db.rev \in Releases
        /\ Fits(row, "employee_profile", db.schema)
        /\ db' = [db EXCEPT !.profile = [@ EXCEPT ![e] = row], !.day = [@ EXCEPT ![e] = day]]
        /\ work' = db'
        /\ told' = [told EXCEPT ![e] = [profile |-> row, day |-> day]]
        /\ low' = [low EXCEPT ![e] = db.rev]
        /\ UNCHANGED <<cmd, target>>
    BY Zenon DEF WriteEmployee
  <1>3. db.rev \in 1..9
    BY <1>2, MigrationsAssumption
  <1>4. GoodRow(row, "employee_profile", db.rev) /\ row # NoRow
    BY <1>2, <1>3, WrittenRow
  <1>5. GoodRow(dated, "schedule", db.rev) /\ dated # NoRow
    BY <1>3, WrittenDay
  <1>6. "schedule" \in Tables(db.schema) <=> db.rev >= 5
    <2>1. db.schema = SchemaAt[db.rev] /\ db.rev \in 0..9
      BY <1>1, <1>3 DEF IInv, Shape
    <2> QED BY <2>1, TablesAre
  <1>7. /\ day # NoRow <=> db.rev >= 5
        /\ day # NoRow => GoodRow(day, "schedule", db.rev)
    BY <1>5, <1>6
  <1> HIDE DEF given, row, dated, day
  <1>8. /\ DOMAIN db' = DOMAIN db /\ db'.company = db.company /\ db'.rev = db.rev
        /\ db'.profile = [db.profile EXCEPT ![e] = row] /\ db'.day = [db.day EXCEPT ![e] = day]
    BY <1>1, <1>2 DEF IInv, Shape
  <1>9. /\ \A f \in Employee : db'.profile[f] = IF f = e THEN row ELSE db.profile[f]
        /\ \A f \in Employee : db'.day[f] = IF f = e THEN day ELSE db.day[f]
    BY <1>1, <1>8 DEF IInv, Shape
  <1>10. /\ DOMAIN told' = Employee /\ DOMAIN low' = Employee
         /\ told'[e].profile = row /\ told'[e].day = day /\ low'[e] = db.rev
         /\ \A f \in Employee \ {e} : told'[f] = told[f] /\ low'[f] = low[f]
    BY <1>2 DEF KInv, Told
  <1>11. RowsGood(db)'
    <2>1. RowsGood(db)
      BY DEF KInv
    <2>2. db'.company # NoRow => db'.rev >= 1 /\ GoodRow(db'.company, "company", db'.rev)
      BY <1>8, <2>1 DEF RowsGood
    <2>3. ASSUME NEW f \in Employee
          PROVE  /\ db'.profile[f] # NoRow =>
                      db'.rev >= 1 /\ GoodRow(db'.profile[f], "employee_profile", db'.rev)
                 /\ db'.day[f] # NoRow =>
                      /\ db'.rev >= 5 /\ db'.profile[f] # NoRow
                      /\ GoodRow(db'.day[f], "schedule", db'.rev)
      <3>1. CASE f = e
        BY <1>3, <1>4, <1>7, <1>8, <1>9, <3>1
      <3>2. CASE f # e
        BY <1>8, <1>9, <2>1, <3>2 DEF RowsGood
      <3> QED BY <3>1, <3>2
    <2> QED BY <2>2, <2>3, Zenon DEF RowsGood
  <1>12. Keeps(row, day, row, day, db.rev, db.rev)
    <2>1. \A c \in Rates \cup {"phone", "avatar_key"} : c \in DOMAIN row =>
              db.rev >= Since("employee_profile", c)
      BY <1>3, <1>4 DEF GoodRow, Span
    <2>2. db.rev >= 1
      BY <1>3
    <2> QED BY <1>4, <1>7, <2>1, <2>2 DEF Keeps
  <1>13. RowsKeep(db)'
    <2>1. RowsKeep(db)
      BY DEF KInv
    <2> SUFFICES ASSUME NEW f \in Employee
                 PROVE  Keeps(db'.profile[f], db'.day[f], told'[f].profile, told'[f].day,
                              db'.rev, Lower(db'.rev, low'[f]))
      BY DEF RowsKeep
    <2>2. CASE f = e
      BY <1>8, <1>9, <1>10, <1>12, <2>2 DEF Lower
    <2>3. CASE f # e
      BY <1>8, <1>9, <1>10, <2>1, <2>3 DEF RowsKeep
    <2> QED BY <2>2, <2>3
  <1>14. RowsGood(work)' /\ RowsKeep(work)'
    BY <1>2, <1>11, <1>13 DEF RowsGood, RowsKeep
  <1> QED
    BY <1>1, <1>2, <1>10, <1>11, <1>13, <1>14 DEF KInv, Told

\* Every step keeps the rows.
LEMMA NextKInv == KInv /\ [Next]_vars => KInv'
  <1> SUFFICES ASSUME KInv, [Next]_vars PROVE KInv'
    OBVIOUS
  <1>1. CASE \E c \in {"up", "down"}, r \in Targets(db.rev) : Command(c, r)
    BY <1>1, CommandsKeepRows, Zenon
  <1>2. CASE UpgradeStep
    BY <1>2, UpgradeStepKeepsRows
  <1>3. CASE DowngradeStep
    BY <1>3, DowngradeStepKeepsRows
  <1>4. CASE CommandCommits \/ CommandEnds
    BY <1>4, CommandsKeepRows, Zenon
  <1>5. CASE \E s \in Contacts : WriteCompany(s)
    BY <1>5, WriteCompanyKeepsRows, Zenon
  <1>6. CASE \E e \in Employee, name \in Names :
                \E snap \in Pays \ {PayOf[e]} : WriteEmployee(e, name, snap)
    <2>1. PICK e \in Employee, name \in Names, snap \in Pays : WriteEmployee(e, name, snap)
      BY <1>6, Zenon
    <2> QED
      BY <2>1, WriteEmployeeKeepsRows, Zenon
  <1>7. CASE UNCHANGED vars
    <2>1. IInv'
      BY <1>7, NextIInv DEF KInv
    <2>2. RowsGood(db)' /\ RowsGood(work)' /\ RowsKeep(db)' /\ RowsKeep(work)'
      BY <1>7 DEF vars, KInv, RowsGood, RowsKeep
    <2> QED BY <1>7, <2>1, <2>2 DEF vars, KInv, Told
  <1> QED
    BY <1>1, <1>2, <1>3, <1>4, <1>5, <1>6, <1>7, Zenon DEF Next

\* Whatever upgrades and downgrades have been run, finished or not, an employee has the
\* name, the rate, the phone and the scheduled rate that a release wrote last, but for
\* columns that a downgrade has dropped in between.
THEOREM RoundTripsAlwaysKeep == Spec => []RoundTripsKeep
  <1>1. KInv => RoundTripsKeep
    <2> SUFFICES ASSUME KInv, NEW e \in Employee
                 PROVE  LET was == told[e].profile
                            is == db.profile[e]
                            d == told[e].day
                            Same(c, since) ==
                                c \in DOMAIN is => is[c] = IF low[e] >= since THEN was[c] ELSE Null
                        IN /\ is # NoRow <=> was # NoRow /\ low[e] >= 1
                           /\ is # NoRow =>
                                /\ WordsOf(is) = WordsOf(was)
                                /\ Same("rate_type", 1) /\ Same("currency", 1)
                                /\ Same("phone", 3) /\ Same("avatar_key", 7)
                           /\ db.day[e] # NoRow <=> d # NoRow /\ low[e] >= 5
                           /\ db.day[e] # NoRow =>
                                /\ db.rev >= 6 => db.day[e].rate_type =
                                      IF low[e] >= 6 THEN d.rate_type ELSE is.rate_type
                                /\ db.rev >= 8 => db.day[e].currency =
                                      IF low[e] >= 8 THEN d.currency ELSE is.currency
      BY DEF RoundTripsKeep
    <2> DEFINE was == told[e].profile
               is == db.profile[e]
               d == told[e].day
               day == db.day[e]
               l == low[e]
    <2>1. Keeps(is, day, was, d, db.rev, l)
      <3>1. Lower(db.rev, low[e]) = low[e]
        BY LowIs DEF KInv
      <3> QED BY <3>1 DEF KInv, RowsKeep
    <2> HIDE DEF is, day, was, d, l
    <2>2. /\ is # NoRow <=> was # NoRow /\ l >= 1
          /\ day # NoRow <=> d # NoRow /\ l >= 5
          /\ is # NoRow => WordsOf(is) = WordsOf(was)
      BY <2>1 DEF Keeps
    <2>3. is # NoRow =>
            /\ "rate_type" \in DOMAIN is =>
                  is["rate_type"] = IF l >= 1 THEN was["rate_type"] ELSE Null
            /\ "currency" \in DOMAIN is =>
                  is["currency"] = IF l >= 1 THEN was["currency"] ELSE Null
            /\ "phone" \in DOMAIN is => is["phone"] = IF l >= 3 THEN was["phone"] ELSE Null
            /\ "avatar_key" \in DOMAIN is =>
                  is["avatar_key"] = IF l >= 7 THEN was["avatar_key"] ELSE Null
      BY <2>1, SinceIs DEF Keeps, Rates
    <2>4. day # NoRow =>
            /\ db.rev >= 6 =>
                  day["rate_type"] = IF l >= 6 THEN d["rate_type"] ELSE is["rate_type"]
            /\ db.rev >= 8 =>
                  day["currency"] = IF l >= 8 THEN d["currency"] ELSE is["currency"]
      BY <2>1, SinceIs DEF Keeps, Rates
    <2> QED
      BY <2>2, <2>3, <2>4 DEF is, day, was, d, l
  <1> QED
    BY <1>1, InitKInv, NextKInv, PTL DEF Spec

\* On every database that releases have written an upgrade runs to its end, and a downgrade
\* too, unless a contact or a part of a name is too long for its column.
THEOREM DowngradesFailOnlyOnLength == Spec => []FailsOnlyOnLength
  <1>1. KInv => FailsOnlyOnLength
    <2> SUFFICES ASSUME KInv, StepFails
                 PROVE  cmd = "down" /\ TooLong(work)
      BY Zenon DEF FailsOnlyOnLength, TooLong
    <2>1. /\ Shape(work) /\ RowsGood(work)
          /\ work.rev \in 0..9 /\ target \in 0..9
      BY DEF KInv, IInv, TypeOK, WellFormed, LastRevision
    <2>2. ~(cmd = "up" /\ work.rev < target /\ ~UpgradeRuns(work))
      BY <2>1, UpGood
    <2>3. cmd = "down" /\ work.rev > target /\ ~DowngradeRuns(work)
      BY <2>2, Zenon DEF StepFails
    <2>4. work.rev \in 1..9
      BY <2>1, <2>3
    <2> QED
      BY <2>1, <2>3, <2>4, DownGood
  <1> QED
    BY <1>1, InitKInv, NextKInv, PTL DEF Spec
=============================================================================
