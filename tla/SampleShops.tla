----------------------------- MODULE SampleShops -----------------------------
(***************************************************************************)
(* The sample companies whose months of activity are generated for         *)
(* demonstrations: three shops (src/samples/shops) and acme-corp           *)
(* (src/samples/data).  A company is its modules (applications), its       *)
(* personas by the type of their identifiers, the routines that groups of  *)
(* personas perform, and the links, in which one persona crosses from one  *)
(* module to another.  Times are minutes.  What an event is about, its     *)
(* metadata and its device are left out.                                   *)
(***************************************************************************)
EXTENDS Naturals, Sequences

\* Routine and Activity, with the defaults that no shop overrides.  The
\* activities are action types, in order.
Routine(module, personas, cadence, hour, activities, occurrences) ==
  [module |-> module, personas |-> personas, cadence |-> cadence,
   hour |-> hour, minute |-> 0, jitter |-> 25,
   activities |-> activities, steps |-> <<1, 6>>, occurrences |-> occurrences]

Once == <<1, 1>>

\* CrossAppLink and its two Steps, <<module, action type>>.  One is emitted
\* with a probability below 1; its time has the smaller jitter of
\* _emit_cross_app.
CrossAppLink(name, persona, first, then, hour) ==
  [name |-> name, persona |-> persona, first |-> first, then |-> then,
   cadence |-> "weekly", hour |-> hour, minute |-> 0, jitter |-> 8,
   gap |-> <<3, 15>>]

-----------------------------------------------------------------------------
(***************************************************************************)
(* SAP: Globex Industries.                                                 *)
(***************************************************************************)

SapModules ==
  {"sap_successfactors_ec", "sap_successfactors_rcm", "sap_successfactors_lms",
   "sap_successfactors_pmgm", "sap_successfactors_comp", "sap_successfactors_wfa",
   "sap_s4hana_fi", "sap_s4hana_mm", "sap_s4hana_sd",
   "sap_ariba_sourcing", "sap_ariba_buying", "sap_ariba_slp",
   "sap_concur_expense", "sap_concur_travel", "sap_concur_invoice"}

SapPersonas ==
  [employee_id |->
     {"HR_SPECIALIST", "RECRUITER", "HIRING_MANAGER", "LEARNING_ADMIN", "PEOPLE_MANAGER",
      "COMP_ANALYST", "HR_ANALYST", "EMPLOYEE", "FIN_ACCOUNTANT", "AP_CLERK",
      "PROCUREMENT_SPEC", "ORDER_PROCESSOR", "SOURCING_MANAGER", "BUYER", "CATEGORY_MANAGER"},
   email |->
     {"EXP_SUBMITTER", "EXP_APPROVER", "FIN_AUDITOR", "TRAVEL_ARRANGER", "AP_PROCESSOR"}]

\* SuccessFactors
SapPeopleRoutines == <<
  Routine("sap_successfactors_ec", {"HR_SPECIALIST"}, "weekday", 9,
          <<"view_employee_profile", "update_personal_info">>, <<2, 4>>),
  Routine("sap_successfactors_ec", {"EMPLOYEE"}, "weekly", 8, <<"submit_time_off">>, Once),
  Routine("sap_successfactors_ec", {"PEOPLE_MANAGER"}, "weekly", 9,
          <<"approve_time_off">>, <<2, 5>>),
  Routine("sap_successfactors_rcm", {"RECRUITER"}, "weekday", 10,
          <<"screen_candidate", "advance_candidate_stage">>, <<2, 5>>),
  Routine("sap_successfactors_rcm", {"HIRING_MANAGER"}, "weekly", 11,
          <<"create_job_requisition">>, Once),
  Routine("sap_successfactors_lms", {"EMPLOYEE", "PEOPLE_MANAGER"}, "weekly", 14,
          <<"launch_content", "complete_course">>, Once),
  Routine("sap_successfactors_lms", {"LEARNING_ADMIN"}, "weekday", 9,
          <<"assign_learning">>, Once),
  Routine("sap_successfactors_pmgm", {"PEOPLE_MANAGER"}, "weekly", 15,
          <<"write_review", "submit_feedback">>, Once),
  Routine("sap_successfactors_pmgm", {"EMPLOYEE"}, "weekly", 16, <<"set_goal">>, Once),
  Routine("sap_successfactors_comp", {"COMP_ANALYST"}, "monthly_end", 10,
          <<"model_comp_plan", "submit_merit_increase">>, <<3, 8>>),
  Routine("sap_successfactors_wfa", {"HR_ANALYST"}, "weekly", 8,
          <<"run_headcount_report">>, <<1, 2>>) >>

\* S/4HANA, Ariba and Concur
SapBusinessRoutines == <<
  Routine("sap_s4hana_fi", {"FIN_ACCOUNTANT"}, "weekday", 9, <<"post_journal_entry">>, <<3, 9>>),
  Routine("sap_s4hana_fi", {"FIN_ACCOUNTANT", "AP_CLERK"}, "monthly_end", 11,
          <<"run_financial_close">>, <<2, 4>>),
  Routine("sap_s4hana_mm", {"PROCUREMENT_SPEC"}, "weekday", 10,
          <<"create_purchase_order", "post_goods_receipt">>, <<2, 6>>),
  Routine("sap_s4hana_sd", {"ORDER_PROCESSOR"}, "weekday", 11,
          <<"create_sales_order", "create_delivery">>, <<3, 8>>),
  Routine("sap_ariba_sourcing", {"SOURCING_MANAGER"}, "weekly", 10,
          <<"create_sourcing_event", "award_supplier">>, Once),
  Routine("sap_ariba_buying", {"BUYER"}, "weekday", 9,
          <<"create_requisition", "approve_requisition">>, <<1, 3>>),
  Routine("sap_ariba_slp", {"CATEGORY_MANAGER"}, "weekly", 13,
          <<"assess_supplier_risk">>, <<2, 4>>),
  Routine("sap_concur_expense", {"EXP_SUBMITTER"}, "monthly_end", 16,
          <<"create_expense_report", "submit_expense_report">>, Once),
  Routine("sap_concur_expense", {"EXP_APPROVER"}, "weekly", 9,
          <<"approve_expense_report">>, <<2, 5>>),
  Routine("sap_concur_expense", {"FIN_AUDITOR"}, "weekly", 14,
          <<"audit_expense_report">>, <<3, 7>>),
  Routine("sap_concur_travel", {"TRAVEL_ARRANGER"}, "weekday", 10, <<"book_flight">>, <<1, 3>>),
  Routine("sap_concur_invoice", {"AP_PROCESSOR"}, "weekday", 13,
          <<"process_vendor_invoice", "match_invoice_po">>, <<2, 6>>) >>

SapLinks == <<
  CrossAppLink("travel_to_expense", "EXP_SUBMITTER",
    <<"sap_concur_travel", "create_travel_request">>,
    <<"sap_concur_expense", "create_expense_report">>, 18),
  CrossAppLink("requisition_to_po", "PROCUREMENT_SPEC",
    <<"sap_ariba_buying", "release_requisition">>,
    <<"sap_s4hana_mm", "create_purchase_order">>, 18),
  CrossAppLink("recruit_to_onboard", "RECRUITER",
    <<"sap_successfactors_rcm", "mark_candidate_hired">>,
    <<"sap_successfactors_ec", "create_new_hire">>, 19),
  CrossAppLink("invoice_to_journal", "AP_PROCESSOR",
    <<"sap_concur_invoice", "post_vendor_invoice">>,
    <<"sap_s4hana_fi", "post_journal_entry">>, 19) >>

-----------------------------------------------------------------------------
(***************************************************************************)
(* Salesforce: Initech Global.                                             *)
(***************************************************************************)

SalesforceModules ==
  {"sfdc_sales_leads", "sfdc_sales_opportunities", "sfdc_sales_forecasting",
   "sfdc_sales_accounts", "sfdc_service_cases", "sfdc_service_knowledge", "sfdc_service_omni",
   "sfdc_marketing_journeys", "sfdc_marketing_campaigns", "sfdc_cpq_quotes",
   "sfdc_cpq_approvals", "sfdc_experience_partner", "sfdc_experience_customer"}

SalesforcePersonas ==
  [sso_subject |->
     {"SDR", "AE_ONE", "AE_TWO", "SALES_MANAGER", "SALES_OPS", "SUPPORT_AGENT_ONE",
      "SUPPORT_AGENT_TWO", "SUPPORT_LEAD", "KNOWLEDGE_MANAGER", "MKT_SPECIALIST",
      "CAMPAIGN_MANAGER", "DEAL_DESK_ANALYST", "SALES_ENGINEER", "DEAL_DESK_MANAGER",
      "PARTNER_USER", "COMMUNITY_CUSTOMER"}]

SalesforceRoutines == <<
  Routine("sfdc_sales_leads", {"SDR"}, "weekday", 8, <<"create_lead", "qualify_lead">>, <<4, 10>>),
  Routine("sfdc_sales_opportunities", {"AE_ONE", "AE_TWO"}, "weekday", 9,
          <<"view_opportunity", "update_stage", "log_activity">>, <<2, 5>>),
  Routine("sfdc_sales_forecasting", {"SALES_MANAGER"}, "weekly", 16, <<"submit_forecast">>, Once),
  Routine("sfdc_sales_accounts", {"SALES_OPS"}, "weekday", 11,
          <<"update_account", "create_contact">>, <<1, 4>>),
  Routine("sfdc_service_cases", {"SUPPORT_AGENT_ONE", "SUPPORT_AGENT_TWO"}, "weekday", 10,
          <<"create_case", "add_case_comment", "resolve_case">>, <<5, 12>>),
  Routine("sfdc_service_knowledge", {"KNOWLEDGE_MANAGER"}, "weekly", 13,
          <<"publish_article">>, <<1, 3>>),
  Routine("sfdc_service_omni", {"SUPPORT_LEAD"}, "weekday", 9, <<"route_work_item">>, <<3, 8>>),
  Routine("sfdc_marketing_journeys", {"MKT_SPECIALIST"}, "weekday", 10,
          <<"build_journey", "send_journey_email">>, <<1, 3>>),
  Routine("sfdc_marketing_campaigns", {"CAMPAIGN_MANAGER"}, "weekly", 11,
          <<"create_campaign">>, Once),
  Routine("sfdc_cpq_quotes", {"DEAL_DESK_ANALYST", "SALES_ENGINEER"}, "weekday", 14,
          <<"create_quote", "configure_product", "generate_quote_doc">>, <<1, 4>>),
  Routine("sfdc_cpq_approvals", {"DEAL_DESK_MANAGER"}, "weekday", 15,
          <<"approve_discount">>, <<2, 6>>),
  Routine("sfdc_experience_partner", {"PARTNER_USER"}, "weekly", 12,
          <<"register_deal">>, <<1, 3>>),
  Routine("sfdc_experience_customer", {"COMMUNITY_CUSTOMER"}, "weekday", 13,
          <<"open_community_case">>, <<1, 2>>) >>

SalesforceLinks == <<
  CrossAppLink("lead_to_opportunity", "AE_ONE",
    <<"sfdc_sales_leads", "convert_lead">>,
    <<"sfdc_sales_opportunities", "create_opportunity">>, 18),
  CrossAppLink("opportunity_to_quote", "AE_TWO",
    <<"sfdc_sales_opportunities", "move_to_proposal">>,
    <<"sfdc_cpq_quotes", "create_quote">>, 18),
  CrossAppLink("case_to_knowledge", "SUPPORT_LEAD",
    <<"sfdc_service_cases", "escalate_case">>,
    <<"sfdc_service_knowledge", "link_article_to_case">>, 19),
  CrossAppLink("opportunity_to_forecast", "SALES_MANAGER",
    <<"sfdc_sales_opportunities", "review_opportunity">>,
    <<"sfdc_sales_forecasting", "submit_forecast">>, 19) >>

-----------------------------------------------------------------------------
(***************************************************************************)
(* Oracle: Umbrella Holdings.                                              *)
(***************************************************************************)

OracleModules ==
  {"oracle_hcm_core", "oracle_hcm_payroll", "oracle_hcm_talent", "oracle_hcm_absence",
   "oracle_hcm_recruiting", "oracle_erp_gl", "oracle_erp_ap", "oracle_erp_ar",
   "oracle_erp_expenses", "oracle_scm_procurement", "oracle_scm_inventory",
   "oracle_scm_order_mgmt", "oracle_cx_sales", "oracle_cx_service",
   "oracle_netsuite_financials", "oracle_netsuite_o2c"}

OraclePersonas ==
  [employee_id |->
     {"HR_SPECIALIST", "PAYROLL_MANAGER", "PEOPLE_MANAGER", "EMPLOYEE", "ORC_RECRUITER",
      "GL_ACCOUNTANT", "AP_SPECIALIST", "AR_ANALYST", "BUYER", "WAREHOUSE_ANALYST",
      "ORDER_MANAGER", "CONTROLLER", "BILLING_SPECIALIST"},
   email |-> {"SALES_REP", "SERVICE_AGENT"}]

\* Fusion HCM and ERP
OraclePeopleAndFinanceRoutines == <<
  Routine("oracle_hcm_core", {"HR_SPECIALIST"}, "weekday", 9,
          <<"update_worker_assignment", "process_promotion">>, <<1, 4>>),
  Routine("oracle_hcm_payroll", {"PAYROLL_MANAGER"}, "monthly_end", 8,
          <<"run_payroll", "verify_payroll">>, Once),
  Routine("oracle_hcm_talent", {"PEOPLE_MANAGER"}, "weekly", 15,
          <<"complete_check_in", "create_performance_goal">>, Once),
  Routine("oracle_hcm_absence", {"EMPLOYEE"}, "weekly", 8, <<"record_absence">>, Once),
  Routine("oracle_hcm_absence", {"PEOPLE_MANAGER"}, "weekly", 9, <<"approve_absence">>, <<2, 5>>),
  Routine("oracle_hcm_recruiting", {"ORC_RECRUITER"}, "weekday", 10,
          <<"move_candidate", "post_requisition">>, <<1, 4>>),
  Routine("oracle_erp_gl", {"GL_ACCOUNTANT"}, "weekday", 9,
          <<"create_journal", "post_journal">>, <<2, 7>>),
  Routine("oracle_erp_gl", {"GL_ACCOUNTANT", "CONTROLLER"}, "monthly_end", 12,
          <<"close_period">>, <<1, 3>>),
  Routine("oracle_erp_ap", {"AP_SPECIALIST"}, "weekday", 10,
          <<"enter_invoice", "validate_invoice">>, <<3, 9>>),
  Routine("oracle_erp_ar", {"AR_ANALYST"}, "weekday", 11,
          <<"create_receipt", "apply_receipt">>, <<2, 6>>),
  Routine("oracle_erp_expenses", {"EMPLOYEE"}, "monthly_end", 16,
          <<"create_expense_report", "submit_expense_report">>, Once) >>

\* Fusion SCM, CX and NetSuite
OracleSupplyAndSalesRoutines == <<
  Routine("oracle_scm_procurement", {"BUYER"}, "weekday", 9,
          <<"create_purchase_order", "approve_po">>, <<2, 6>>),
  Routine("oracle_scm_inventory", {"WAREHOUSE_ANALYST"}, "weekday", 8,
          <<"record_receipt", "cycle_count">>, <<3, 8>>),
  Routine("oracle_scm_order_mgmt", {"ORDER_MANAGER"}, "weekday", 10,
          <<"create_sales_order", "book_order", "schedule_shipment">>, <<2, 5>>),
  Routine("oracle_cx_sales", {"SALES_REP"}, "weekday", 9,
          <<"update_opportunity", "create_lead">>, <<2, 6>>),
  Routine("oracle_cx_service", {"SERVICE_AGENT"}, "weekday", 10,
          <<"create_service_request", "resolve_service_request">>, <<4, 10>>),
  Routine("oracle_netsuite_financials", {"CONTROLLER"}, "monthly_end", 13,
          <<"close_books">>, <<1, 2>>),
  Routine("oracle_netsuite_o2c", {"BILLING_SPECIALIST"}, "weekday", 11,
          <<"create_invoice", "apply_payment">>, <<2, 7>>) >>

OracleLinks == <<
  CrossAppLink("receivable_to_netsuite", "AR_ANALYST",
    <<"oracle_erp_ar", "invoice_customer">>, <<"oracle_netsuite_o2c", "create_invoice">>, 18),
  CrossAppLink("gl_to_netsuite_close", "GL_ACCOUNTANT",
    <<"oracle_erp_gl", "finalize_period_journal">>,
    <<"oracle_netsuite_financials", "close_books">>, 18),
  CrossAppLink("absence_to_talent", "PEOPLE_MANAGER",
    <<"oracle_hcm_absence", "close_absence_case">>,
    <<"oracle_hcm_talent", "log_talent_check_in">>, 19),
  CrossAppLink("opportunity_to_order", "SALES_REP",
    <<"oracle_cx_sales", "win_opportunity">>,
    <<"oracle_scm_order_mgmt", "create_sales_order">>, 19) >>

-----------------------------------------------------------------------------
(***************************************************************************)
(* acme-corp, whose patterns are functions of their own with a jitter, a   *)
(* starting minute and steps of their own.                                 *)
(***************************************************************************)

AcmeApplications == {"jira", "successfactors", "concur"}

AcmeUsers == [email |-> {"ALICE", "BOB", "CAROL", "DAVE", "ERIN"}]

\* daily_sprint_checks: the board, then an issue
AcmeSprintChecks ==
  [Routine("jira", {"BOB", "CAROL", "ERIN"}, "weekday", 9,
           <<"view_sprint_board", "update_issue_status">>, Once)
     EXCEPT !.steps = <<2, 12>>]

AcmeLeaveApprovals ==
  [Routine("successfactors", {"ALICE"}, "weekly", 9, <<"approve_leave_request">>, <<2, 4>>)
     EXCEPT !.minute = 30, !.jitter = 40]

AcmeExpenseSubmissions ==
  [Routine("concur", {"BOB", "CAROL", "DAVE", "ERIN"}, "monthly_end", 16,
           <<"submit_expense_report">>, Once)
     EXCEPT !.jitter = 60]

\* cross_app_leave_to_capacity
AcmeLeaveToCapacity ==
  [CrossAppLink("leave_to_capacity", "ERIN",
     <<"successfactors", "approve_leave_request">>, <<"jira", "update_capacity_plan">>, 10)
     EXCEPT !.minute = 15, !.jitter = 30, !.gap = <<3, 10>>]

-----------------------------------------------------------------------------

SapShop == [key |-> "sap", modules |-> SapModules, personas |-> SapPersonas,
            routines |-> SapPeopleRoutines \o SapBusinessRoutines, cross_app |-> SapLinks]

SalesforceShop == [key |-> "salesforce", modules |-> SalesforceModules,
                   personas |-> SalesforcePersonas,
                   routines |-> SalesforceRoutines, cross_app |-> SalesforceLinks]

OracleShop == [key |-> "oracle", modules |-> OracleModules, personas |-> OraclePersonas,
               routines |-> OraclePeopleAndFinanceRoutines \o OracleSupplyAndSalesRoutines,
               cross_app |-> OracleLinks]

AcmeCorp == [key |-> "acme", modules |-> AcmeApplications, personas |-> AcmeUsers,
             routines |-> <<AcmeSprintChecks, AcmeLeaveApprovals, AcmeExpenseSubmissions>>,
             cross_app |-> <<AcmeLeaveToCapacity>>]

\* The shops of generate.py, which are expanded by the framework.
Shops == {SapShop, SalesforceShop, OracleShop}

=============================================================================
