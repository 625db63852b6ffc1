----------------------------- MODULE TableBodies -----------------------------
(***************************************************************************)
(* The answers of the operations on business data: what the backend writes,*)
(* what parse... of the frontend makes of it, and the types the list, the  *)
(* detail and the form are compiled against.  The definition of a table    *)
(* decides which fields a form has and which operations are offered; a     *)
(* body half understood would offer a form that loses what is typed.       *)
(***************************************************************************)
EXTENDS ApiBodies

tableBodyVars == <<asked, body, shown>>

VALUE_TYPES == {"STRING", "INTEGER", "BIG_INTEGER", "DECIMAL", "BOOLEAN", "DATE", "DATETIME",
                "DATETIME_TZ", "TIME", "TIME_TZ", "BINARY", "OTHER"}
LIST_FORMATS == {"DATE", "DATETIME", "TIME", "NUMBER_GROUPED", "BOOLEAN_YES_NO", "BOOLEAN_ON_OFF"}
FORM_PARTS == {"text", "textarea", "checkbox", "switch", "radio", "select", "date", "datetime",
               "number", "password", "lookup"}
RESTRICTION_REASONS == {"NO_PRIMARY_KEY", "PRIMARY_KEY_HIDDEN", "VIEW"}
SEARCH_OPERATORS == {"EQUALS", "CONTAINS", "RANGE", "CHOICE"}
SORT_DIRECTIONS == {"ASC", "DESC"}
PAGE_SIZES == {"20", "50", "100"}
REFERENCE_KINDS == {"REFERENCE", "LOOKUP"}
REFERENCE_STATUSES == {"AVAILABLE", "NO_PERMISSION", "TOO_MANY"}

(* nullable: null, or absent, or a value of one of the kinds; read as null *)
(* when there is none.                                                     *)
nullable(kinds) == kinds \cup Null \cup {"missing"}
Object == One \cup {"emptyObject"}

(* The bodies that differ from base in at most two fields, each as options *)
(* has it: what a column may be has too many combinations to list.         *)
Near(base, options) ==
  UNION {{[base EXCEPT ![f] = a, ![g] = b] : a \in options[f], b \in options[g]} :
           f \in DOMAIN options, g \in DOMAIN options}

-----------------------------------------------------------------------------
(* The identity of a definition, and the small parts.                      *)

DefinitionIdBody == [dslHash : Text, workRoleId : Num \cup Null]
parseDefinitionId(v) ==
  ReadAs(v, [dslHash |-> Text, workRoleId |-> nullable(Num)],
         [dslHash |-> At(v, "dslHash"), workRoleId |-> OrNull(At(v, "workRoleId"))])
DefinitionId == [dslHash : Text, workRoleId : Num \cup Null]

DisplayName == [ja : Text, en : Text]
parseText(v) == Read(v, [ja |-> Text, en |-> Text])
LocalizedText == [ja : Text, en : Text]

OptionResponse == [value : Text, label : One]
parseChoice(v) == Read(v, [value |-> Text, label |-> One])
Choice == [value : Text, label : One]

SortKeyBody == [column : Text, direction : SORT_DIRECTIONS]
parseSortKey(v) == Read(v, [column |-> Text, direction |-> SORT_DIRECTIONS])
SortKey == [column : Text, direction : SORT_DIRECTIONS]

SearchFieldResponse ==
  [column : Text, displayName : One, operator : SEARCH_OPERATORS, valueType : VALUE_TYPES,
   defaultValue : Text \cup Null, collapsed : Bool, options : Many]
parseSearchField(v) ==
  LET spec == [column |-> Text, displayName |-> One, operator |-> SEARCH_OPERATORS,
               valueType |-> VALUE_TYPES, defaultValue |-> nullable(Text), collapsed |-> Bool,
               options |-> Many]
  IN  ReadAs(v, spec, [f \in DOMAIN spec |-> OrNull(At(v, f))])
SearchField ==
  [column : Text, displayName : One, operator : SEARCH_OPERATORS, valueType : VALUE_TYPES,
   defaultValue : Text \cup Null, collapsed : Bool, options : Many]

-----------------------------------------------------------------------------
(* References to other tables.                                             *)

ReferenceOptionResponse == [value : Text, label : Text \cup Null]
parseReferenceOption(v) ==
  ReadAs(v, [value |-> Text, label |-> nullable(Text)],
         [value |-> At(v, "value"), label |-> OrNull(At(v, "label"))])
ReferenceOption == [value : Text, label : Text \cup Null]

PickerSearchResponse ==
  [column : Text, displayName : One, operator : {"EQUALS", "CONTAINS"}, valueType : VALUE_TYPES]
parsePickerSearchField(v) ==
  Read(v, [column |-> Text, displayName |-> One, operator |-> {"EQUALS", "CONTAINS"},
           valueType |-> VALUE_TYPES])
PickerSearchField ==
  [column : Text, displayName : One, operator : {"EQUALS", "CONTAINS"}, valueType : VALUE_TYPES]
PickerListResponse == [column : Text, displayName : One, valueType : VALUE_TYPES]
parsePickerListColumn(v) == Read(v, [column |-> Text, displayName |-> One, valueType |-> VALUE_TYPES])
PickerListColumn == [column : Text, displayName : One, valueType : VALUE_TYPES]
PickerInfoResponse == [searchFields : Many, listColumns : Many]
parsePickerInfo(v) == Read(v, [searchFields |-> Many, listColumns |-> Many])
PickerInfo == [searchFields : Many, listColumns : Many]

(* Options only of a reference that is available, a picker only of a       *)
(* lookup that is; what is null is not written.                            *)
ReferenceFieldResponse ==
  {b \in [kind : REFERENCE_KINDS, status : REFERENCE_STATUSES, options : Many \cup {"missing"},
          picker : One \cup {"missing"}, labelValueType : VALUE_TYPES \cup {"missing"}] :
     /\ b.options \in Many <=> b.kind = "REFERENCE" /\ b.status = "AVAILABLE"
     /\ b.picker \in One <=> b.kind = "LOOKUP" /\ b.status = "AVAILABLE"
     /\ b.status # "AVAILABLE" => b.labelValueType = "missing"}
parseLabelValueType(kind) == IF kind \in VALUE_TYPES THEN kind ELSE "null"
NoFormInput == [kind |-> "REFERENCE", status |-> "NO_PERMISSION", options |-> "list",
            picker |-> "null", labelValueType |-> "null"]
(* A kind nobody knows, and a status nobody knows, leave the field without *)
(* input instead of refusing the table.                                    *)
parseReference(v) ==
  LET knownKind == At(v, "kind") \in REFERENCE_KINDS
      status    == IF At(v, "status") \in REFERENCE_STATUSES THEN v.status ELSE "NO_PERMISSION"
      options   == At(v, "options")
      picker    == At(v, "picker")
      lacks     == /\ knownKind
                   /\ status = "AVAILABLE"
                   /\ \/ v.kind = "REFERENCE" /\ options \in Null \cup {"missing"}
                      \/ v.kind = "LOOKUP" /\ picker \in Null \cup {"missing"}
  IN  IF options \notin nullable(Many) \/ picker \notin nullable(One) \/ lacks THEN Refused
      ELSE IF ~knownKind THEN NoFormInput
      ELSE [kind |-> v.kind, status |-> status, options |-> "list", picker |-> OrNull(picker),
            labelValueType |-> IF status = "AVAILABLE"
                               THEN parseLabelValueType(At(v, "labelValueType")) ELSE "null"]
ReferenceField ==
  [kind : REFERENCE_KINDS, status : REFERENCE_STATUSES, options : Many, picker : One \cup Null,
   labelValueType : VALUE_TYPES \cup Null]

ReferenceRowResponse == [value : Text, label : Text \cup Null, cells : Many]
parseReferenceRow(v) ==
  LET spec == [value |-> Text, label |-> nullable(Text), cells |-> Many]
  IN  ReadAs(v, spec, [f \in DOMAIN spec |-> OrNull(At(v, f))])
ReferenceRow == [value : Text, label : Text \cup Null, cells : Many]

(* PICKER_PAGE_SIZE rows are a "fullList", one row is "oneRow", more than  *)
(* a page "longList"; a page beyond MAX_PAGE is "hugeNumber".              *)
ReferenceRowsResponse ==
  {b \in [rows : Many \cup {"oneRow", "fullList"}, page : Positive, hasNext : Bool] :
     b.hasNext = "true" => b.rows = "fullList"}
parseReferenceRowPage(v) ==
  IF At(v, "hasNext") = "true" /\ At(v, "rows") # "fullList" THEN Refused
  ELSE Read(v, [rows |-> Many \cup {"oneRow", "fullList"}, page |-> Positive, hasNext |-> Bool])
ReferenceRowPage == [rows : Many \cup {"oneRow", "fullList"}, page : Positive, hasNext : Bool]
ReferenceValueResponse == [rows : {"oneRow"}, page : Null, hasNext : {"false"}]
parseReferenceLabel(v) == Read(v, [rows |-> {"oneRow"}])
ReferenceLabel == [rows : {"oneRow"}]

-----------------------------------------------------------------------------
(* A column and a table.  The field reference holds the kind of the        *)
(* reference, "unknownKind" one the frontend does not know.                *)

ColumnOptions ==
  [column |-> Text, displayName |-> One, valueType |-> VALUE_TYPES,
   listFormat |-> LIST_FORMATS \cup Null, width |-> Positive \cup Null,
   editableOnCreate |-> Bool, editableOnUpdate |-> Bool, masked |-> Bool,
   formPart |-> FORM_PARTS, required |-> Bool, nullable |-> Bool,
   minLength |-> Num \cup Null, maxLength |-> Num \cup Null, precision |-> Num \cup Null,
   scale |-> Num \cup Null, min |-> Text \cup Null, max |-> Text \cup Null, choices |-> Many,
   hasPattern |-> Bool, reference |-> REFERENCE_KINDS \cup Null]
PlainColumn ==
  [column |-> "text", displayName |-> "object", valueType |-> "STRING", listFormat |-> "null",
   width |-> "null", editableOnCreate |-> "true", editableOnUpdate |-> "true",
   masked |-> "false", formPart |-> "text", required |-> "true", nullable |-> "false",
   minLength |-> "null", maxLength |-> "number", precision |-> "null", scale |-> "null",
   min |-> "null", max |-> "null", choices |-> "list", hasPattern |-> "false",
   reference |-> "null"]
(* The part is lookup only of a column whose reference is a lookup.        *)
ColumnDefinitionResponse ==
  {b \in Near(PlainColumn, ColumnOptions) : b.formPart = "lookup" <=> b.reference = "LOOKUP"}

(* The fields of the check of a value may be absent, and some be null.     *)
ValidationSpec ==
  [formPart |-> nullable(FORM_PARTS), required |-> Bool \cup {"missing"},
   nullable |-> Bool \cup {"missing"}, hasPattern |-> Bool \cup {"missing"},
   minLength |-> nullable(Num), maxLength |-> nullable(Num), precision |-> nullable(Num),
   scale |-> nullable(Num), min |-> nullable(Text), max |-> nullable(Text),
   choices |-> Many \cup {"missing"}, reference |-> nullable(REFERENCE_KINDS \cup {"unknownKind"})]
parseValidation(v) ==
  IF /\ At(v, "formPart") = "lookup"
     /\ At(v, "reference") \in {"missing", "null", "REFERENCE"}
  THEN Refused
  ELSE ReadAs(v, ValidationSpec,
              [f \in DOMAIN ValidationSpec |->
                 IF At(v, f) = "unknownKind" THEN NoFormInput.kind ELSE At(v, f)])
ColumnSpec ==
  [column |-> Text, displayName |-> One, valueType |-> VALUE_TYPES,
   listFormat |-> nullable(LIST_FORMATS), width |-> nullable(Positive),
   editableOnCreate |-> Bool, editableOnUpdate |-> Bool, masked |-> Bool]
parseColumnDefinition(v) ==
  LET validation == parseValidation(v)
  IN  IF validation = Refused THEN Refused
      ELSE ReadAs(v, ColumnSpec,
                  [f \in DOMAIN ColumnSpec \cup DOMAIN validation |->
                     IF f \in DOMAIN validation THEN validation[f] ELSE OrNull(At(v, f))])
ColumnDeclared ==
  [column |-> Text, displayName |-> One, valueType |-> VALUE_TYPES,
   listFormat |-> LIST_FORMATS \cup Null, width |-> Positive \cup Null,
   editableOnCreate |-> Bool, editableOnUpdate |-> Bool, masked |-> Bool,
   formPart |-> nullable(FORM_PARTS), required |-> Bool \cup {"missing"},
   nullable |-> Bool \cup {"missing"}, minLength |-> nullable(Num), maxLength |-> nullable(Num),
   precision |-> nullable(Num), scale |-> nullable(Num), min |-> nullable(Text),
   max |-> nullable(Text), choices |-> Many \cup {"missing"}, hasPattern |-> Bool \cup {"missing"},
   reference |-> nullable(REFERENCE_KINDS)]
ColumnDefinition(value) == DOMAIN value = DOMAIN ColumnDeclared /\ Fits(value, ColumnDeclared)

(* An input needs its part and the two rules; a column without input does  *)
(* not.                                                                    *)
hasWriteMaterial(c) ==
  (c.editableOnCreate = "false" /\ c.editableOnUpdate = "false")
  \/ /\ c.formPart \in FORM_PARTS
     /\ c.required \in Bool
     /\ c.nullable \in Bool
(* parseTableDefinition's columns of the detail: both checks.              *)
parseDetailColumn(v) ==
  LET c == parseColumnDefinition(v)
  IN  IF c = Refused \/ ~hasWriteMaterial(c) THEN Refused ELSE c

(* Of the table asked for, "asked"; the lists hold parts accepted above.   *)
TableDefinitionResponse ==
  [definitionId : One, definitionChanged : Bool, schema : {"asked"}, table : {"asked"},
   displayName : One, view : Bool, hasPrimaryKey : Bool, primaryKeyColumns : Many,
   operations : Many, restrictionReason : RESTRICTION_REASONS \cup Null, writeConfigured : Bool,
   rowLabelColumns : Many, listColumns : Many, detailColumns : Many, searchFields : Many,
   sortableColumns : Many, defaultSort : Many]
parseTableDefinition(v) ==
  LET spec == [definitionId |-> One, definitionChanged |-> Bool, schema |-> {"asked"},
               table |-> {"asked"}, displayName |-> One, view |-> Bool, hasPrimaryKey |-> Bool,
               primaryKeyColumns |-> Many, operations |-> Many,
               restrictionReason |-> nullable(RESTRICTION_REASONS), writeConfigured |-> Bool,
               rowLabelColumns |-> Many, listColumns |-> Many, detailColumns |-> Many,
               searchFields |-> Many, sortableColumns |-> Many, defaultSort |-> Many]
  IN  ReadAs(v, spec, [f \in DOMAIN spec |-> OrNull(At(v, f))])
TableDefinition ==
  [definitionId : One, definitionChanged : Bool, schema : {"asked"}, table : {"asked"},
   displayName : One, view : Bool, hasPrimaryKey : Bool, primaryKeyColumns : Many,
   operations : Many, restrictionReason : RESTRICTION_REASONS \cup Null, writeConfigured : Bool,
   rowLabelColumns : Many, listColumns : Many, detailColumns : Many, searchFields : Many,
   sortableColumns : Many, defaultSort : Many]

-----------------------------------------------------------------------------
(* Rows.                                                                   *)

parseKey(kind) == kind \in Object
parseValues(kind) == kind \in Object
RowItemResponse == [key : One \cup Null, values : Object, truncatedColumns : Many]
parseRowItem(v) ==
  LET key == OrNull(At(v, "key"))
  IN  IF (key = "null" \/ parseKey(key)) /\ parseValues(At(v, "values"))
      THEN ReadAs(v, [truncatedColumns |-> Many],
                  [key |-> key, values |-> v.values, truncatedColumns |-> "list"])
      ELSE Refused
RowItem == [key : Object \cup Null, values : Object, truncatedColumns : Many]

RowPageResponse ==
  [definitionId : One, definitionChanged : Bool, items : Many, page : Positive,
   size : PAGE_SIZES, total : Num]
parseRowPage(v) ==
  Read(v, [definitionId |-> One, definitionChanged |-> Bool, items |-> Many, page |-> Positive,
           size |-> PAGE_SIZES, total |-> Num])
RowPage ==
  [definitionId : One, definitionChanged : Bool, items : Many, page : Positive,
   size : PAGE_SIZES, total : Num]

RowDetailResponse ==
  [definitionId : One, definitionChanged : Bool, key : Object, values : Object,
   truncatedColumns : Many]
parseRowDetail(v) ==
  IF parseKey(At(v, "key")) /\ parseValues(At(v, "values"))
  THEN Read(v, [definitionId |-> One, definitionChanged |-> Bool, key |-> Object,
                values |-> Object, truncatedColumns |-> Many])
  ELSE Refused
RowDetail ==
  [definitionId : One, definitionChanged : Bool, key : Object, values : Object,
   truncatedColumns : Many]

RowCreatedResponse == [definitionId : One, key : One \cup {"missing"}]
parseCreatedKey(v) == [key |-> IF At(v, "key") \in One THEN "object" ELSE "null"]
CreatedKey == [key : One \cup Null]

(* A refusal: its mistakes, those it can read, and whether the definition  *)
(* has changed.                                                            *)
FieldErrorResponse == [field : Text, reason : Text, message : One \cup {"missing"}]
parseFieldError(v) ==
  LET message == IF At(v, "message") \in One THEN "object" ELSE "missing"
  IN  ReadAs(v, [field |-> Text, reason |-> Text],
             [field |-> "text", reason |-> "text", message |-> message])
BusinessFieldError == [field : Text, reason : Text, message : One \cup {"missing"}]
ProblemResponse ==
  [status : Num, code : Text, fieldErrors : Many \cup {"missing"},
   definitionChanged : Bool \cup {"missing"}]
parseBusinessProblem(v) ==
  ReadAs(v, [status |-> Num],
         [status |-> At(v, "status"),
          code |-> IF At(v, "code") \in Text THEN "text" ELSE "missing",
          fieldErrors |-> "list",
          definitionChanged |-> IF At(v, "definitionChanged") = "true" THEN "true" ELSE "false"])
BusinessProblem ==
  [status : Num, code : Text \cup {"missing"}, fieldErrors : Many, definitionChanged : Bool]

-----------------------------------------------------------------------------
(* What the backend writes when a type is asked for.                       *)
TableSentBy ==
  [DefinitionId |-> DefinitionIdBody, LocalizedText |-> DisplayName,
   Choice |-> OptionResponse, SortKey |-> SortKeyBody, SearchField |-> SearchFieldResponse,
   ReferenceOption |-> ReferenceOptionResponse, PickerSearchField |-> PickerSearchResponse,
   PickerListColumn |-> PickerListResponse, PickerInfo |-> PickerInfoResponse,
   ReferenceField |-> ReferenceFieldResponse, ReferenceRow |-> ReferenceRowResponse,
   ReferenceRowPage |-> ReferenceRowsResponse, ReferenceLabel |-> ReferenceValueResponse,
   TableDefinition |-> TableDefinitionResponse, RowItem |-> RowItemResponse,
   RowPage |-> RowPageResponse, RowDetail |-> RowDetailResponse,
   CreatedKey |-> RowCreatedResponse, BusinessFieldError |-> FieldErrorResponse,
   BusinessProblem |-> ProblemResponse, ListColumn |-> ColumnDefinitionResponse,
   DetailColumn |-> ColumnDefinitionResponse]

(* What a type of the frontend may hold, by its interface.                 *)
TableDeclaredAs ==
  [DefinitionId |-> DefinitionId, LocalizedText |-> LocalizedText, Choice |-> Choice,
   SortKey |-> SortKey, SearchField |-> SearchField, ReferenceOption |-> ReferenceOption,
   PickerSearchField |-> PickerSearchField, PickerListColumn |-> PickerListColumn,
   PickerInfo |-> PickerInfo, ReferenceField |-> ReferenceField,
   ReferenceRow |-> ReferenceRow, ReferenceRowPage |-> ReferenceRowPage,
   ReferenceLabel |-> ReferenceLabel, TableDefinition |-> TableDefinition,
   RowItem |-> RowItem, RowPage |-> RowPage, RowDetail |-> RowDetail,
   CreatedKey |-> CreatedKey, BusinessFieldError |-> BusinessFieldError,
   BusinessProblem |-> BusinessProblem]

(* What the parsers make of the body that came.                            *)
TableParsed ==
  [DefinitionId |-> parseDefinitionId(body), LocalizedText |-> parseText(body),
   Choice |-> parseChoice(body), SortKey |-> parseSortKey(body),
   SearchField |-> parseSearchField(body), ReferenceOption |-> parseReferenceOption(body),
   PickerSearchField |-> parsePickerSearchField(body),
   PickerListColumn |-> parsePickerListColumn(body), PickerInfo |-> parsePickerInfo(body),
   ReferenceField |-> parseReference(body), ReferenceRow |-> parseReferenceRow(body),
   ReferenceRowPage |-> parseReferenceRowPage(body),
   ReferenceLabel |-> parseReferenceLabel(body),
   TableDefinition |-> parseTableDefinition(body), RowItem |-> parseRowItem(body),
   RowPage |-> parseRowPage(body), RowDetail |-> parseRowDetail(body),
   CreatedKey |-> parseCreatedKey(body), BusinessFieldError |-> parseFieldError(body),
   BusinessProblem |-> parseBusinessProblem(body), ListColumn |-> parseColumnDefinition(body),
   DetailColumn |-> parseDetailColumn(body)]

OfItsType(t, value) ==
  IF t \in DOMAIN TableDeclaredAs THEN value \in TableDeclaredAs[t]
  ELSE value # Refused /\ ColumnDefinition(value)

(* The bodies a field is harmed in: all but of a column, where the plain   *)
(* one and a lookup stand for the rest; and the ways to harm it.           *)
ToHarm ==
  [TableSentBy EXCEPT
     !.ListColumn = {PlainColumn, [PlainColumn EXCEPT !.formPart = "lookup", !.reference = "LOOKUP"]},
     !.DetailColumn = {PlainColumn, [PlainColumn EXCEPT !.editableOnUpdate = "false"]}]
OddKinds == {"hugeNumber", "longList", "oneRow", "fullList", "unknownKind", "unknownWord", "lookup"}
Harms(v) == Harmed(v) \cup {[v EXCEPT ![f] = k] : f \in DOMAIN v, k \in OddKinds}

TableBodyInit ==
  /\ asked \in DOMAIN TableSentBy
  /\ body \in TableSentBy[asked] \/ \E sent \in ToHarm[asked] : body \in Harms(sent)
  /\ shown = NotRead

readTableBody ==
  /\ shown = NotRead
  /\ shown' = TableParsed[asked]
  /\ UNCHANGED <<asked, body>>

TableBodyNext == readTableBody

(* Every answer the backend can write about a table is understood whole:   *)
(* an unreadable column or row would refuse the page it is on.             *)
TablesUnderstood == shown # NotRead /\ body \in TableSentBy[asked] => OfItsType(asked, shown)

(* Whatever comes, a parser gives the declared type or nothing, and a      *)
(* column offered for input has all a form needs, a lookup its reference.  *)
OnlyTablesGetIn ==
  Accepted(shown) =>
    /\ OfItsType(asked, shown)
    /\ asked = "DetailColumn" =>
         /\ "true" \in {shown.editableOnCreate, shown.editableOnUpdate} =>
              shown.formPart \in FORM_PARTS /\ {shown.required, shown.nullable} \subseteq Bool
         /\ shown.formPart = "lookup" => shown.reference \in REFERENCE_KINDS

=============================================================================
